---- MODULE Spec2Model ----
(***************************************************************************)
(* A model of the backtest core of bassuaz24/Backtest_framework:           *)
(*   - Portfolio (src/backtest/portfolio.py): the ledger,                  *)
(*   - ExecutionHandler (src/core/execution.py): order -> fill/rejection,  *)
(*   - BacktestEngine (src/core/engine.py): the day loop,                  *)
(*   - target_weights_to_quantities (src/core/sizer.py): the sizer.        *)
(*                                                                         *)
(* Numbers.  Python floats are modelled by integers, so float rounding is  *)
(* not modelled.  Share quantities are counted in units of 0.5e-9 share,   *)
(* which puts the pruning threshold 1e-9 of apply_fill at EPS = 2 units    *)
(* and lets the model hold residues below the threshold that are not zero. *)
(* The sizer rounds to whole shares: SpecSizer counts shares in shares.    *)
(* A float that may be NaN (a price read from a table or a price map, the  *)
(* equity computed from it) is a record [nan, v].                          *)
(*                                                                         *)
(* Five specifications share the variables:                                *)
(*   SpecLedger  any sequence of calls on one Portfolio,                   *)
(*   SpecFills   any sequence of apply_fill calls on one Portfolio,        *)
(*   SpecExec    calls of ExecutionHandler.simulate_execution,             *)
(*   SpecSizer   calls of target_weights_to_quantities,                    *)
(*   Spec        a run of BacktestEngine.run_backtest.                     *)
(***************************************************************************)
EXTENDS Integers, Sequences, FiniteSets, TLC

VARIABLES
    initial_cash,     \* Portfolio.initial_cash
    cash,             \* Portfolio.cash
    positions,        \* Portfolio.positions: held symbol -> shares
    fees_paid,        \* Portfolio.fees_paid
    fills_log,        \* Portfolio.fills_log
    daily_history,    \* Portfolio.daily_history
    last_equity,      \* Portfolio._last_equity
    bars,             \* the data provider's clean bars: <<date, symbol>> -> bar
    cost_model,       \* BasicCostModel: commission_bps, slippage_bps as given
    rebalance_schedule, \* BacktestEngine.rebalance_schedule
    required_lookback, \* BacktestEngine.strategy.required_lookback
    start_date,       \* BacktestEngine.start_date
    trading_days,     \* BacktestEngine.trading_days
    scheduled_orders, \* BacktestEngine.scheduled_orders: execution day -> orders
    i,                \* run_backtest: index of the day being processed
    pc,               \* run_backtest: the step of the day that comes next
    error,            \* run_backtest: the exception that ended the run, or "none"
    created,          \* history: the orders the run has created, in order
    handed,           \* history: the orders the run has passed to simulate_execution
    outcomes,         \* history: the fills and rejections simulate_execution returned
    consulted,        \* history: the calls of strategy.generate_orders
    last              \* the last call made and what it returned or raised

ledger == <<initial_cash, cash, positions, fees_paid, fills_log, daily_history, last_equity>>

market == <<bars, cost_model>>

engine == <<rebalance_schedule, required_lookback, start_date, trading_days,
            scheduled_orders, i, pc, error, created, handed, outcomes, consulted>>

vars == <<initial_cash, cash, positions, fees_paid, fills_log, daily_history, last_equity,
          bars, cost_model,
          rebalance_schedule, required_lookback, start_date, trading_days,
          scheduled_orders, i, pc, error, created, handed, outcomes, consulted, last>>

-----------------------------------------------------------------------------
(* Bounds and input sets *)

Symbols == {"AAPL", "MSFT"}

\* A ledger run makes at most MaxCalls calls that change the ledger
\* (successful apply_fill and take_snapshot calls).
MaxCalls == 2

\* A run of apply_fill calls alone logs at most MaxFills fills.
MaxFills == 3

\* abs(shares) < 1e-9, in units of 0.5e-9 share (portfolio.py line 52).
EPS == 2

\* Fill fields the ledger is driven with.  Valid fills: shares of both signs
\* whose sums fall on both sides of EPS (3 - 3 = 0, 3 - 2 = 1 < EPS), two
\* prices and a fee.  Invalid fills: a price that fails validation (0), a fee
\* that fails it (-1), and both.
FillShares == {-3, -2, 3}

FillPrices == {2, 3}

FillFees == {1}

BadFillFields == {<<0, 1>>, <<2, -1>>, <<0, -1>>}

\* The initial cash: an amount, and none (the reference equity of the first
\* snapshot is then exactly zero).
InitialCashes == {0, 10}

\* simulate_execution is called with at most MaxOrders orders.
MaxOrders == 2

\* The data provider has bars on the dates 1..NumDates.  Date 1 is Friday
\* 2024-08-30, so the dates run over a week's end and a month's end.
NumDates == 3

\* The lookbacks a strategy declares (MeanReversionStrategy: lookback_vol + 1).
Lookbacks == {1, 2}

\* Cost models: the default (no costs) and the one of the tests.
CostModels == {[commission_bps |-> 0, slippage_bps |-> 0],
               [commission_bps |-> 1, slippage_bps |-> 10]}

-----------------------------------------------------------------------------
(* Floats that may be NaN *)

NaN == [nan |-> TRUE, v |-> 0]

F(n) == [nan |-> FALSE, v |-> n]

FAdd(a, b) == IF a.nan \/ b.nan THEN NaN ELSE F(a.v + b.v)

FSub(a, b) == IF a.nan \/ b.nan THEN NaN ELSE F(a.v - b.v)

FMul(a, b) == IF a.nan \/ b.nan THEN NaN ELSE F(a.v * b.v)

Abs(n) == IF n < 0 THEN -n ELSE n

FAbs(a) == IF a.nan THEN NaN ELSE F(Abs(a.v))

\* abs(x) < 1e-9 on an amount of money: every comparison with NaN is False,
\* and an integer amount is below the tolerance exactly when it is 0.
FBelowTol(a) == ~a.nan /\ a.v = 0

\* sum(f(s) for s in S), Python's sum starting from 0.
RECURSIVE FSum(_, _)
FSum(S, f) ==
    IF S = {} THEN F(0)
    ELSE LET s == CHOOSE x \in S : TRUE
         IN FAdd(FSum(S \ {s}, f), f[s])

\* Price maps (dict symbol -> float): any subset of the symbols as keys.
PriceVals == {NaN, F(2), F(3)}

PriceMaps == UNION {[K -> PriceVals] : K \in SUBSET Symbols}

-----------------------------------------------------------------------------
(* Fill (portfolio.py) *)

Fill(dt, symbol, shares, price, fee) ==
    [dt |-> dt, symbol |-> symbol, shares |-> shares, price |-> price, fee |-> fee]

notional(fill) == fill.shares * fill.price

\* A cash_change that leaves the fee out.
cash_change_NoFee(fill) == -notional(fill)

cash_change(fill) == -notional(fill) - fill.fee

ValidFills ==
    {Fill(0, s, n, p, f) : s \in Symbols, n \in FillShares, p \in FillPrices, f \in FillFees}

InvalidFills ==
    {Fill(0, s, 3, b[1], b[2]) : s \in Symbols, b \in BadFillFields}

FillInputs == ValidFills \cup InvalidFills

-----------------------------------------------------------------------------
(* Portfolio *)

\* dict.get(key, default)
Get(d, k, default) == IF k \in DOMAIN d THEN d[k] ELSE default

\* What a call did: raised names the exception ("none" when it returned).
Returned(value) == [raised |-> "none", value |-> value]

Raised(exc) == [raised |-> exc, value |-> NaN]

\* A validation that checks the price and not the fee.
FillError_PriceOnly(fill) ==
    IF fill.price <= 0 THEN "ValueError" ELSE "none"

\* A validation that also refuses a fill that would leave the position
\* short or the cash negative.
FillError_Funded(fill) ==
    IF fill.price <= 0 THEN "ValueError"
    ELSE IF fill.fee < 0 THEN "ValueError"
    ELSE IF Get(positions, fill.symbol, 0) + fill.shares < 0 THEN "ValueError"
    ELSE IF cash - fill.shares * fill.price - fill.fee < 0 THEN "ValueError"
    ELSE "none"

\* apply_fill, the validation: the exception raised, or "none".
FillError(fill) ==
    IF fill.price <= 0 THEN "ValueError"
    ELSE IF fill.fee < 0 THEN "ValueError"
    ELSE "none"

\* A position update that deletes the entry only when it is exactly zero.
PositionsAfter_ExactZero(pos, fill) ==
    LET updated == [s \in DOMAIN pos \cup {fill.symbol} |->
                        IF s = fill.symbol THEN Get(pos, s, 0) + fill.shares ELSE pos[s]]
    IN IF updated[fill.symbol] = 0
       THEN [s \in DOMAIN updated \ {fill.symbol} |-> updated[s]]
       ELSE updated

\* A position update that sets the position to the fill's shares instead of
\* adding them.
PositionsAfter_Overwrite(pos, fill) ==
    LET updated == [s \in DOMAIN pos \cup {fill.symbol} |->
                        IF s = fill.symbol THEN fill.shares ELSE pos[s]]
    IN IF Abs(updated[fill.symbol]) < EPS
       THEN [s \in DOMAIN updated \ {fill.symbol} |-> updated[s]]
       ELSE updated

\* apply_fill, the position update: positions[symbol] = get(symbol, 0) + shares,
\* deleted again when its magnitude is below the threshold.
PositionsAfter(pos, fill) ==
    LET updated == [s \in DOMAIN pos \cup {fill.symbol} |->
                        IF s = fill.symbol THEN Get(pos, s, 0) + fill.shares ELSE pos[s]]
    IN IF Abs(updated[fill.symbol]) < EPS
       THEN [s \in DOMAIN updated \ {fill.symbol} |-> updated[s]]
       ELSE updated

\* A mark_to_market that values a held symbol without a price at 0
\* (prices.get(symbol, 0)) instead of raising.
MarkToMarket_DefaultZero(c, pos, prices) ==
    LET positions_value == FSum(DOMAIN pos, [s \in DOMAIN pos |-> FMul(F(pos[s]), Get(prices, s, F(0)))])
        equity == FAdd(F(c), positions_value)
    IN IF ~FBelowTol(FAbs(FSub(equity, FAdd(F(c), positions_value))))
       THEN Raised("RuntimeError")
       ELSE Returned(equity)

\* A mark_to_market that sums the magnitudes of the position values
\* (the gross exposure) instead of the signed values.
MarkToMarket_Gross(c, pos, prices) ==
    IF \E s \in DOMAIN pos : s \notin DOMAIN prices
    THEN Raised("ValueError")
    ELSE LET positions_value == FSum(DOMAIN pos, [s \in DOMAIN pos |-> FAbs(FMul(F(pos[s]), prices[s]))])
             equity == FAdd(F(c), positions_value)
         IN IF ~FBelowTol(FAbs(FSub(equity, FAdd(F(c), positions_value))))
            THEN Raised("RuntimeError")
            ELSE Returned(equity)

\* mark_to_market on a ledger with the given cash and positions.
MarkToMarket(c, pos, prices) ==
    IF \E s \in DOMAIN pos : s \notin DOMAIN prices
    THEN Raised("ValueError")
    ELSE LET positions_value == FSum(DOMAIN pos, [s \in DOMAIN pos |-> FMul(F(pos[s]), prices[s])])
             equity == FAdd(F(c), positions_value)
         IN IF ~FBelowTol(FAbs(FSub(equity, FAdd(F(c), positions_value))))
            THEN Raised("RuntimeError")
            ELSE Returned(equity)

\* A snapshot record that reports the gross exposure as positions_value.
Snapshot_GrossValue(dt, equity, c, pos, prices, prev_equity) ==
    [datetime |-> dt,
     equity |-> equity,
     cash |-> c,
     positions_value |-> FSum(DOMAIN pos, [s \in DOMAIN pos |-> FAbs(FMul(F(pos[s]), prices[s]))]).v,
     gross_exposure |-> FSum(DOMAIN pos, [s \in DOMAIN pos |-> FAbs(FMul(F(pos[s]), prices[s]))]).v,
     net_exposure |-> equity - c,
     num_positions |-> Cardinality(DOMAIN pos),
     daily_return |-> IF prev_equity # 0 THEN <<equity - prev_equity, prev_equity>> ELSE <<0, 1>>]

\* A snapshot record whose daily_return divides by the previous equity also
\* when that is zero.
Snapshot_NoZeroGuard(dt, equity, c, pos, prices, prev_equity) ==
    [datetime |-> dt,
     equity |-> equity,
     cash |-> c,
     positions_value |-> equity - c,
     gross_exposure |-> FSum(DOMAIN pos, [s \in DOMAIN pos |-> FAbs(FMul(F(pos[s]), prices[s]))]).v,
     net_exposure |-> equity - c,
     num_positions |-> Cardinality(DOMAIN pos),
     daily_return |-> <<equity - prev_equity, prev_equity>>]

\* take_snapshot's record, given the equity mark_to_market returned.
\* daily_return is kept as the fraction <<numerator, denominator>>.
Snapshot(dt, equity, c, pos, prices, prev_equity) ==
    [datetime |-> dt,
     equity |-> equity,
     cash |-> c,
     positions_value |-> equity - c,
     gross_exposure |-> FSum(DOMAIN pos, [s \in DOMAIN pos |-> FAbs(FMul(F(pos[s]), prices[s]))]).v,
     net_exposure |-> equity - c,
     num_positions |-> Cardinality(DOMAIN pos),
     daily_return |-> IF prev_equity # 0 THEN <<equity - prev_equity, prev_equity>> ELSE <<0, 1>>]

\* A get_weights that leaves the 'cash' entry out.
get_weights_NoCash(c, pos, prices) ==
    LET mtm == MarkToMarket(c, pos, prices)
    IN IF mtm.raised # "none" THEN mtm
       ELSE IF FBelowTol(FAbs(mtm.value))
       THEN Returned([s \in DOMAIN pos |-> <<0, 1>>])
       ELSE Returned([s \in DOMAIN pos |-> <<pos[s] * prices[s].v, mtm.value.v>>])

\* A get_weights without the guard on the equity: it divides by an equity of
\* zero, which raises ZeroDivisionError.
get_weights_NoGuard(c, pos, prices) ==
    LET mtm == MarkToMarket(c, pos, prices)
    IN IF mtm.raised # "none" THEN mtm
       ELSE IF FBelowTol(FAbs(mtm.value))
       THEN Raised("ZeroDivisionError")
       ELSE Returned([k \in DOMAIN pos \cup {"cash"} |->
                         IF k = "cash" THEN <<c, mtm.value.v>>
                         ELSE <<pos[k] * prices[k].v, mtm.value.v>>])

\* get_weights: the weights as fractions <<numerator, denominator>>, keyed by
\* the held symbols and 'cash'; zeros for the held symbols alone when the
\* equity is below the tolerance; the exception of mark_to_market when it
\* raises.
get_weights(c, pos, prices) ==
    LET mtm == MarkToMarket(c, pos, prices)
    IN IF mtm.raised # "none" THEN mtm
       ELSE IF FBelowTol(FAbs(mtm.value))
       THEN Returned([s \in DOMAIN pos |-> <<0, 1>>])
       ELSE Returned([k \in DOMAIN pos \cup {"cash"} |->
                         IF k = "cash" THEN <<c, mtm.value.v>>
                         ELSE <<pos[k] * prices[k].v, mtm.value.v>>])

-----------------------------------------------------------------------------
(* The calls on a Portfolio *)

ApplyFill(fill) ==
    /\ last' = [op |-> "apply_fill", fill |-> fill, ret |-> Raised(FillError(fill))]
    /\ IF FillError(fill) # "none"
       THEN UNCHANGED ledger
       ELSE /\ positions' = PositionsAfter(positions, fill)
            /\ cash' = cash + cash_change(fill)
            /\ fees_paid' = fees_paid + fill.fee
            /\ fills_log' = Append(fills_log, fill)
            /\ UNCHANGED <<initial_cash, daily_history, last_equity>>

\* A mark_to_market that keeps the equity it computed as the reference
\* equity of the next snapshot.
CallMarkToMarket_Caching(prices) ==
    /\ last' = [op |-> "mark_to_market", prices |-> prices, ret |-> MarkToMarket(cash, positions, prices)]
    /\ last_equity' = IF last'.ret.raised = "none" THEN last'.ret.value.v ELSE last_equity
    /\ UNCHANGED <<initial_cash, cash, positions, fees_paid, fills_log, daily_history>>

CallMarkToMarket(prices) ==
    /\ last' = [op |-> "mark_to_market", prices |-> prices, ret |-> MarkToMarket(cash, positions, prices)]
    /\ UNCHANGED ledger

CallGetWeights(prices) ==
    /\ last' = [op |-> "get_weights", prices |-> prices, ret |-> get_weights(cash, positions, prices)]
    /\ UNCHANGED ledger

TakeSnapshot(dt, prices) ==
    LET mtm == MarkToMarket(cash, positions, prices)
    IN /\ last' = [op |-> "take_snapshot", dt |-> dt, prices |-> prices,
                   ret |-> IF mtm.raised = "none" THEN Returned(NaN) ELSE mtm]
       /\ IF mtm.raised # "none"
          THEN UNCHANGED ledger
          ELSE /\ daily_history' = Append(daily_history,
                      Snapshot(dt, mtm.value.v, cash, positions, prices, last_equity))
               /\ last_equity' = mtm.value.v
               /\ UNCHANGED <<initial_cash, cash, positions, fees_paid, fills_log>>

-----------------------------------------------------------------------------
(* SpecLedger: any sequence of calls on one Portfolio *)

NoCall == [op |-> "init"]

\* Portfolio.__init__
InitPortfolio ==
    /\ initial_cash \in InitialCashes
    /\ cash = initial_cash
    /\ positions = <<>>
    /\ fees_paid = 0
    /\ fills_log = <<>>
    /\ daily_history = <<>>
    /\ last_equity = initial_cash

\* No data provider and no cost model are in use.
NoMarket ==
    /\ bars = <<>>
    /\ cost_model = [commission_bps |-> 0, slippage_bps |-> 0]

\* No engine is in use.
NoEngine ==
    /\ rebalance_schedule = "D"
    /\ required_lookback = 1
    /\ start_date = <<1, 0>>
    /\ trading_days = <<>>
    /\ scheduled_orders = <<>>
    /\ i = 1
    /\ pc = "idle"
    /\ error = "none"
    /\ created = <<>>
    /\ handed = <<>>
    /\ outcomes = <<>>
    /\ consulted = <<>>

InitLedger ==
    /\ InitPortfolio
    /\ NoMarket
    /\ NoEngine
    /\ last = NoCall

Calls == Len(fills_log) + Len(daily_history)

LedgerApplyFill ==
    \E fill \in FillInputs :
        /\ Calls < MaxCalls
        /\ ApplyFill(fill)
        /\ UNCHANGED <<market, engine>>

\* mark_to_market and get_weights leave the ledger as it is, so a run of
\* them reaches the ledgers that its last call alone reaches: the model
\* makes one such call between two calls of apply_fill or take_snapshot.
AfterQuery == last.op \in {"mark_to_market", "get_weights"}

LedgerMarkToMarket ==
    \E prices \in PriceMaps :
        /\ ~AfterQuery
        /\ CallMarkToMarket(prices)
        /\ UNCHANGED <<market, engine>>

LedgerGetWeights ==
    \E prices \in PriceMaps :
        /\ ~AfterQuery
        /\ CallGetWeights(prices)
        /\ UNCHANGED <<market, engine>>

LedgerTakeSnapshot ==
    \E prices \in PriceMaps :
        /\ Calls < MaxCalls
        /\ TakeSnapshot(Len(daily_history) + 1, prices)
        /\ UNCHANGED <<market, engine>>

NextLedger ==
    \/ LedgerApplyFill
    \/ LedgerMarkToMarket
    \/ LedgerGetWeights
    \/ LedgerTakeSnapshot

SpecLedger == InitLedger /\ [][NextLedger]_vars

-----------------------------------------------------------------------------
(* SpecFills: any sequence of apply_fill calls, successful and failed, on    *)
(* one Portfolio                                                             *)

\* The fills of such a run: the valid fills at one price (the share counts
\* are what the runs differ in) and the invalid ones.
RunFills == {fill \in FillInputs : fill.price # 3}

\* A call that fails leaves the log as it is and may come at any time.
FillsApplyFill ==
    \E fill \in RunFills :
        /\ Len(fills_log) < MaxFills \/ FillError(fill) # "none"
        /\ ApplyFill(fill)
        /\ UNCHANGED <<market, engine>>

NextFills == FillsApplyFill

SpecFills == InitLedger /\ [][NextFills]_vars

-----------------------------------------------------------------------------
(* Datetimes and the data provider (src/core/data.py) *)

\* A datetime is <<day, time of day>>; a trading day is a midnight.
Midnight(d) == <<d, 0>>

\* dt.strftime('%Y-%m-%d') and dt.date(): the day, without the time of day.
DateOf(dt) == dt[1]

\* An optional value: None, or a number.
None == [none |-> TRUE, v |-> 0]

Some(n) == [none |-> FALSE, v |-> n]

\* The bar of a symbol on a date.  Prices are multiples of 10000 so that fees
\* in basis points are whole amounts; the open and the adjusted close of a
\* bar differ from each other and from those of every other bar.
Bar(d, s) ==
    LET k == IF s = "AAPL" THEN 1 ELSE 2
    IN [open |-> 10000 * (4 * d + k), adj_close |-> 10000 * (4 * d + k + 2)]

\* A bar whose open is not a valid price.
ZeroOpenBar(d, s) == [open |-> 0, adj_close |-> Bar(d, s).adj_close]

\* DataHandler.get_price: the field of the symbol's bar on the date, None
\* when the symbol has no bar on that date.
get_price(symbol, date, field) ==
    IF <<date, symbol>> \in DOMAIN bars THEN Some(bars[<<date, symbol>>][field]) ELSE None

-----------------------------------------------------------------------------
(* Execution (src/core/execution.py) *)

Order(symbol, shares, generated_dt, execute_dt) ==
    [symbol |-> symbol, shares |-> shares, generated_dt |-> generated_dt,
     execute_dt |-> execute_dt, style |-> "MKT"]

\* A fill model that refuses a missing price only.
get_fill_price_NoneOnly(order) ==
    get_price(order.symbol, DateOf(order.execute_dt), "open")

\* A fill model that refuses a negative price and accepts a price of 0
\* (price < 0 for price <= 0).
get_fill_price_NegativeOnly(order) ==
    LET price == get_price(order.symbol, DateOf(order.execute_dt), "open")
    IN IF price.none \/ price.v < 0 THEN None ELSE price

\* NextOpenFillModel.get_fill_price
get_fill_price(order) ==
    LET price == get_price(order.symbol, DateOf(order.execute_dt), "open")
    IN IF price.none \/ price.v <= 0 THEN None ELSE price

\* A fee on the signed notional (shares * price without abs).
calculate_fee_Signed(shares, price) ==
    LET notional_signed == shares * price
        commission == (cost_model.commission_bps * notional_signed) \div 10000
        slippage_cost == (cost_model.slippage_bps * notional_signed) \div 10000
    IN commission + slippage_cost

\* BasicCostModel.calculate_fee, with the rates bps / 10000 of __init__.
calculate_fee(shares, price) ==
    LET notional_abs == Abs(shares * price)
        commission == (cost_model.commission_bps * notional_abs) \div 10000
        slippage_cost == (cost_model.slippage_bps * notional_abs) \div 10000
    IN commission + slippage_cost

\* The reason string of a rejection.
Reason(order) ==
    <<"Missing or invalid price for", order.symbol, "on", DateOf(order.execute_dt)>>

\* The loop of simulate_execution over the orders left, with the fills and
\* the rejections collected so far.
RECURSIVE SimulateLoop(_, _, _)
SimulateLoop(orders, fills, rejected_log) ==
    IF orders = <<>>
    THEN [fills |-> fills, rejected_log |-> rejected_log]
    ELSE LET order == Head(orders)
             fill_price == get_fill_price(order)
         IN IF fill_price.none
            THEN SimulateLoop(Tail(orders), fills,
                     Append(rejected_log, [order |-> order, reason |-> Reason(order)]))
            ELSE SimulateLoop(Tail(orders),
                     Append(fills, Fill(order.execute_dt, order.symbol, order.shares,
                                        fill_price.v, calculate_fee(order.shares, fill_price.v))),
                     rejected_log)

\* A loop that stops at the first order without a price (break for
\* continue).
RECURSIVE SimulateLoop_Break(_, _, _)
SimulateLoop_Break(orders, fills, rejected_log) ==
    IF orders = <<>>
    THEN [fills |-> fills, rejected_log |-> rejected_log]
    ELSE LET order == Head(orders)
             fill_price == get_fill_price(order)
         IN IF fill_price.none
            THEN [fills |-> fills,
                  rejected_log |-> Append(rejected_log, [order |-> order, reason |-> Reason(order)])]
            ELSE SimulateLoop_Break(Tail(orders),
                     Append(fills, Fill(order.execute_dt, order.symbol, order.shares,
                                        fill_price.v, calculate_fee(order.shares, fill_price.v))),
                     rejected_log)

simulate_execution_Break(orders) == SimulateLoop_Break(orders, <<>>, <<>>)

\* ExecutionHandler.simulate_execution
simulate_execution(orders) == SimulateLoop(orders, <<>>, <<>>)

-----------------------------------------------------------------------------
(* SpecExec: one call of simulate_execution on a data provider.  The handler *)
(* keeps no state, so calls do not depend on each other.                    *)

\* The provider has bars on day 1 at most; orders execute on day 1 or, with
\* a time of day, on day 2, and were generated the day before.
ExecBarCells == {<<1, s>> : s \in Symbols}

ExecBars == UNION {[K -> {"bar", "zero_open"}] : K \in SUBSET ExecBarCells}

ExecOrders ==
    {Order(s, n, Midnight(dt[1] - 1), dt) :
        s \in Symbols, n \in {-3, 3}, dt \in {<<1, 0>>, <<2, 1>>}}

RECURSIVE SeqsUpTo(_, _)
SeqsUpTo(S, n) ==
    IF n = 0 THEN {<<>>}
    ELSE LET shorter == SeqsUpTo(S, n - 1)
         IN shorter \cup {Append(q, x) : q \in shorter, x \in S}

InitExec ==
    /\ InitPortfolio
    /\ \E kinds \in ExecBars :
           bars = [c \in DOMAIN kinds |->
                      IF kinds[c] = "bar" THEN Bar(c[1], c[2]) ELSE ZeroOpenBar(c[1], c[2])]
    /\ cost_model \in CostModels
    /\ NoEngine
    /\ last = NoCall

ExecSimulate ==
    \E orders \in SeqsUpTo(ExecOrders, MaxOrders) :
        /\ last = NoCall
        /\ last' = [op |-> "simulate_execution", orders |-> orders,
                    ret |-> simulate_execution(orders)]
        /\ UNCHANGED <<ledger, market, engine>>

NextExec == ExecSimulate

SpecExec == InitExec /\ [][NextExec]_vars

-----------------------------------------------------------------------------
(* BacktestEngine (src/core/engine.py) *)

\* The calendar.  Date d is the day 2024-08-29 + d: date 1 is a Friday, date 2
\* is Saturday 2024-08-31, date 3 is Sunday 2024-09-01.
Weekday(d) == (d + 3) % 7

Month(d) == IF d <= 2 THEN 8 ELSE IF d <= 32 THEN 9 ELSE 10

\* The dates, in increasing order, of a set of dates.
RECURSIVE SortedDays(_)
SortedDays(D) ==
    IF D = {} THEN <<>>
    ELSE LET d == CHOOSE x \in D : \A y \in D : x <= y
         IN <<Midnight(d)>> \o SortedDays(D \ {d})

\* _preload_data: the pivot of the bars by date and symbol.  Its index holds
\* the dates on which some symbol has a bar, its columns the symbols that have
\* a bar on some date; a cell without a bar is NaN.
PivotIndex == {c[1] : c \in DOMAIN bars}

PivotColumns == {c[2] : c \in DOMAIN bars}

\* pivot.loc[t_date].to_dict(): every column is a key, NaN cells included.
PivotRow(field, d) ==
    [s \in PivotColumns |-> IF <<d, s>> \in DOMAIN bars THEN F(bars[<<d, s>>][field]) ELSE NaN]

\* A fallback calendar of all days (date_range for bdate_range).
TradingCalendar_AllDays(start) ==
    IF DOMAIN bars = {}
    THEN SortedDays({d \in 1..NumDates : d >= DateOf(start)})
    ELSE SortedDays({d \in PivotIndex : d >= DateOf(start)})

\* _get_trading_calendar: the dates of the pivot's index from start_date to
\* end_date; the business days between them when no data was loaded.
TradingCalendar(start) ==
    IF DOMAIN bars = {}
    THEN SortedDays({d \in 1..NumDates : d >= DateOf(start) /\ Weekday(d) < 5})
    ELSE SortedDays({d \in PivotIndex : d >= DateOf(start)})

\* A weekly schedule that takes Saturday (weekday 5) for the week's end.
is_rebalance_day_Saturday(schedule, dt) ==
    IF schedule = "D" THEN TRUE
    ELSE IF schedule = "W" THEN Weekday(DateOf(dt)) = 5
    ELSE IF schedule = "M" THEN Month(DateOf(dt) + 1) # Month(DateOf(dt))
    ELSE FALSE

\* _is_rebalance_day
is_rebalance_day(schedule, dt) ==
    IF schedule = "D" THEN TRUE
    ELSE IF schedule = "W" THEN Weekday(DateOf(dt)) = 4
    ELSE IF schedule = "M" THEN Month(DateOf(dt) + 1) # Month(DateOf(dt))
    ELSE FALSE

\* A history window that runs one row past the day.
hist_data_Lookahead(dt, lookback) ==
    LET index == SortedDays(PivotIndex)
        hist_data_end_idx == CHOOSE k \in 1..Len(index) : index[k] = dt
        hist_data_start_idx == IF hist_data_end_idx - lookback > 1
                               THEN hist_data_end_idx - lookback ELSE 1
    IN SubSeq(index, hist_data_start_idx,
              IF hist_data_end_idx < Len(index) THEN hist_data_end_idx + 1 ELSE hist_data_end_idx)

\* The history window run_backtest cuts for the strategy on the day dt:
\* adj_close_prices.iloc[max(0, end - lookback) : end + 1], where end is the
\* place of dt in the index (counted from 0 there, from 1 here).  The window
\* is the sequence of its rows' dates; the row of a date is
\* PivotRow("adj_close", date).
hist_data(dt, lookback) ==
    LET index == SortedDays(PivotIndex)
        hist_data_end_idx == CHOOSE k \in 1..Len(index) : index[k] = dt
        hist_data_start_idx == IF hist_data_end_idx - lookback > 1
                               THEN hist_data_end_idx - lookback ELSE 1
    IN SubSeq(index, hist_data_start_idx, hist_data_end_idx)

\* A call of strategy.generate_orders(t_date, hist_data, portfolio_state):
\* its arguments, the ledger's fills at the time of the call, and the close
\* prices that MeanReversionStrategy passes to the sizer, data.iloc[-1].
GenerateOrdersCall(dt, data, current_equity) ==
    [dt |-> dt,
     data |-> data,
     portfolio_state |-> [equity |-> current_equity,
                          cash |-> cash,
                          positions |-> positions,
                          weights |-> get_weights(cash, positions,
                                                  PivotRow("adj_close", DateOf(dt))).value],
     close_prices |-> PivotRow("adj_close", DateOf(data[Len(data)])),
     fills_log |-> fills_log]

\* The parameters of ExecutionHandler.simulate_execution (execution.py line
\* 57) and the keywords run_backtest calls it with (engine.py line 105).
SimulateExecutionParams == {"orders", "data_handler"}

EngineCallKeywords == {"orders", "open_prices_for_day"}

\* A Python call by keyword: a keyword that is no parameter raises TypeError.
CallError(keywords, params) ==
    IF keywords \subseteq params THEN "none" ELSE "TypeError"

\* for fill in fills: portfolio.apply_fill(fill), on the ledger record L; the
\* loop ends at the first fill that apply_fill refuses.
RECURSIVE ApplyFills(_, _)
ApplyFills(L, fills) ==
    IF fills = <<>> THEN L
    ELSE LET fill == Head(fills)
         IN IF FillError(fill) # "none"
            THEN [L EXCEPT !.raised = FillError(fill)]
            ELSE ApplyFills([raised |-> "none",
                             positions |-> PositionsAfter(L.positions, fill),
                             cash |-> L.cash + cash_change(fill),
                             fees_paid |-> L.fees_paid + fill.fee,
                             fills_log |-> Append(L.fills_log, fill)],
                            Tail(fills))

\* scheduled_orders.pop(t_date, [])
PopOrders(schedule, t_date) == Get(schedule, t_date, <<>>)

\* A get in place of the pop: the day's entry stays in the schedule.
WithoutKey_Keep(schedule, t_date) == schedule

WithoutKey(schedule, t_date) == [k \in DOMAIN schedule \ {t_date} |-> schedule[k]]

\* scheduled_orders.setdefault(next_day, []).extend(new_orders)
Extended(schedule, next_day, new_orders) ==
    [k \in DOMAIN schedule \cup {next_day} |->
        IF k = next_day THEN Get(schedule, next_day, <<>>) \o new_orders ELSE schedule[k]]

\* Orders that execute on the day on which they are generated.
NewOrders_SameDay(keys, quantities, t_date, next_day) ==
    [k \in 1..Len(keys) |-> Order(keys[k], quantities[keys[k]], t_date, t_date)]

\* The orders of run_backtest for the strategy's quantities, in the order
\* in which the dictionary's items come.
NewOrders(keys, quantities, t_date, next_day) ==
    [k \in 1..Len(keys) |-> Order(keys[k], quantities[keys[k]], t_date, next_day)]

\* What a strategy may return: quantities for any of the symbols, with the
\* items in any order.  A strategy that sizes its target weights with
\* target_weights_to_quantities returns the items in the order in which the
\* sizer's loop went over its symbol set.
QuantityMaps == UNION {[K -> {-2, 3}] : K \in SUBSET Symbols}

ItemOrders(K) ==
    {q \in SeqsUpTo(K, Cardinality(K)) :
        Len(q) = Cardinality(K) /\ \A a, b \in 1..Len(q) : a # b => q[a] # q[b]}

\* The portfolio the engine is constructed with: a new one, or one that
\* already holds shares bought before the run.
SeedFill == Fill(Midnight(0), "AAPL", 3, 2, 1)

InitSeededPortfolio ==
    /\ initial_cash \in InitialCashes
    /\ cash = initial_cash + cash_change(SeedFill)
    /\ positions = PositionsAfter(<<>>, SeedFill)
    /\ fees_paid = SeedFill.fee
    /\ fills_log = <<SeedFill>>
    /\ daily_history = <<>>
    /\ last_equity = initial_cash

\* BacktestEngine.__init__, with the data provider's bars an input.
InitEngine ==
    /\ InitPortfolio \/ InitSeededPortfolio
    /\ \E K \in SUBSET ((1..NumDates) \X Symbols) : bars = [c \in K |-> Bar(c[1], c[2])]
    /\ cost_model = [commission_bps |-> 1, slippage_bps |-> 5]
    /\ rebalance_schedule \in {"D", "W", "M"}
    /\ required_lookback \in Lookbacks
    /\ start_date \in {Midnight(1), Midnight(2)}
    /\ trading_days = TradingCalendar(start_date)
    /\ scheduled_orders = <<>>
    /\ i = 1
    /\ pc = "start"
    /\ error = "none"
    /\ created = <<>>
    /\ handed = <<>>
    /\ outcomes = <<>>
    /\ consulted = <<>>
    /\ last = NoCall

t_date == trading_days[i]

\* run_backtest up to the loop: with no data it returns an empty frame; the
\* loop over no trading day falls through to the return of history_df, which
\* raises KeyError on a history without rows (set_index('datetime')).
RunBegin ==
    /\ pc = "start"
    /\ IF DOMAIN bars = {}
       THEN pc' = "returned_empty" /\ error' = "none"
       ELSE IF trading_days = <<>>
            THEN pc' = "raised" /\ error' = "KeyError"
            ELSE pc' = "execute" /\ error' = "none"
    /\ UNCHANGED <<ledger, market, rebalance_schedule, required_lookback, start_date,
                   trading_days, scheduled_orders, i, created, handed, outcomes, consulted,
                   last>>

\* Step 1 of a day: pop the day's orders and, when there are any, call
\* simulate_execution and apply the fills.
EngineExecute ==
    /\ pc = "execute"
    /\ LET orders_to_execute == PopOrders(scheduled_orders, t_date)
           call_error == CallError(EngineCallKeywords, SimulateExecutionParams)
           ret == simulate_execution(orders_to_execute)
           L == ApplyFills([raised |-> "none", positions |-> positions, cash |-> cash,
                            fees_paid |-> fees_paid, fills_log |-> fills_log], ret.fills)
       IN /\ scheduled_orders' = WithoutKey(scheduled_orders, t_date)
          /\ handed' = handed \o orders_to_execute
          /\ IF orders_to_execute = <<>>
             THEN /\ pc' = "signal"
                  /\ UNCHANGED <<ledger, error, outcomes>>
             ELSE IF call_error # "none"
             THEN /\ pc' = "raised"
                  /\ error' = call_error
                  /\ UNCHANGED <<ledger, outcomes>>
             ELSE /\ outcomes' = Append(outcomes, [day |-> t_date, fills |-> ret.fills,
                                                   rejected |-> ret.rejected_log])
                  /\ positions' = L.positions
                  /\ cash' = L.cash
                  /\ fees_paid' = L.fees_paid
                  /\ fills_log' = L.fills_log
                  /\ pc' = IF L.raised = "none" THEN "signal" ELSE "raised"
                  /\ error' = L.raised
                  /\ UNCHANGED <<initial_cash, daily_history, last_equity>>
    /\ UNCHANGED <<market, rebalance_schedule, required_lookback, start_date, trading_days, i,
                   created, consulted, last>>

\* A step 2 that schedules orders also on the last day of the calendar, for
\* the day after it.
EngineSignal_NoHorizon ==
    /\ pc = "signal"
    /\ IF ~is_rebalance_day(rebalance_schedule, t_date)
       THEN /\ pc' = "snapshot"
            /\ UNCHANGED <<ledger, last, error, scheduled_orders, created, consulted>>
       ELSE /\ CallMarkToMarket(PivotRow("adj_close", DateOf(t_date)))
            /\ IF last'.ret.raised # "none"
               THEN /\ pc' = "raised"
                    /\ error' = last'.ret.raised
                    /\ UNCHANGED <<scheduled_orders, created, consulted>>
               ELSE LET hist == hist_data(t_date, required_lookback)
                    IN /\ pc' = "snapshot"
                       /\ error' = "none"
                       /\ IF hist = <<>>
                          THEN UNCHANGED <<scheduled_orders, created, consulted>>
                          ELSE /\ consulted' = Append(consulted,
                                      GenerateOrdersCall(t_date, hist, last'.ret.value))
                               /\ \E target_quantities \in QuantityMaps :
                                  \E keys \in ItemOrders(DOMAIN target_quantities) :
                                     LET next_day == IF i < Len(trading_days)
                                                     THEN trading_days[i + 1]
                                                     ELSE Midnight(DateOf(t_date) + 1)
                                         new_orders == NewOrders(keys, target_quantities,
                                                                 t_date, next_day)
                                     IN /\ scheduled_orders' =
                                               Extended(scheduled_orders, next_day, new_orders)
                                        /\ created' = created \o new_orders
    /\ UNCHANGED <<market, rebalance_schedule, required_lookback, start_date, trading_days, i,
                   handed, outcomes>>

\* Step 2 of a day: on a rebalance day mark the portfolio to market at the
\* day's close, ask the strategy for quantities and schedule an order for
\* each for the next trading day, when there is one.  The history window of
\* the day is never empty, since it holds the day's own row.
EngineSignal ==
    /\ pc = "signal"
    /\ IF ~is_rebalance_day(rebalance_schedule, t_date)
       THEN /\ pc' = "snapshot"
            /\ UNCHANGED <<ledger, last, error, scheduled_orders, created, consulted>>
       ELSE /\ CallMarkToMarket(PivotRow("adj_close", DateOf(t_date)))
            /\ IF last'.ret.raised # "none"
               THEN /\ pc' = "raised"
                    /\ error' = last'.ret.raised
                    /\ UNCHANGED <<scheduled_orders, created, consulted>>
               ELSE LET hist == hist_data(t_date, required_lookback)
                    IN /\ pc' = "snapshot"
                       /\ error' = "none"
                       /\ IF hist = <<>>
                          THEN UNCHANGED <<scheduled_orders, created, consulted>>
                          ELSE /\ consulted' = Append(consulted,
                                      GenerateOrdersCall(t_date, hist, last'.ret.value))
                               /\ \E target_quantities \in QuantityMaps :
                                  \E keys \in ItemOrders(DOMAIN target_quantities) :
                                     IF i < Len(trading_days)
                                     THEN LET next_day == trading_days[i + 1]
                                              new_orders == NewOrders(keys, target_quantities,
                                                                      t_date, next_day)
                                          IN /\ scheduled_orders' =
                                                    Extended(scheduled_orders, next_day, new_orders)
                                             /\ created' = created \o new_orders
                                     ELSE UNCHANGED <<scheduled_orders, created>>
    /\ UNCHANGED <<market, rebalance_schedule, required_lookback, start_date, trading_days, i,
                   handed, outcomes>>

\* A step 3 that catches the error of take_snapshot and goes on with the
\* next day.
EngineSnapshot_Continue ==
    /\ pc = "snapshot"
    /\ TakeSnapshot(t_date, PivotRow("adj_close", DateOf(t_date)))
    /\ error' = "none"
    /\ IF i < Len(trading_days)
       THEN pc' = "execute" /\ i' = i + 1
       ELSE pc' = "returned" /\ i' = i
    /\ UNCHANGED <<market, rebalance_schedule, required_lookback, start_date, trading_days,
                   scheduled_orders, created, handed, outcomes, consulted>>

\* Step 3 of a day: the snapshot at the day's close; then the next day, or
\* the return after the last one.
EngineSnapshot ==
    /\ pc = "snapshot"
    /\ TakeSnapshot(t_date, PivotRow("adj_close", DateOf(t_date)))
    /\ IF last'.ret.raised # "none"
       THEN pc' = "raised" /\ error' = last'.ret.raised /\ i' = i
       ELSE /\ error' = "none"
            /\ IF i < Len(trading_days)
               THEN pc' = "execute" /\ i' = i + 1
               ELSE pc' = "returned" /\ i' = i
    /\ UNCHANGED <<market, rebalance_schedule, required_lookback, start_date, trading_days,
                   scheduled_orders, created, handed, outcomes, consulted>>

Next ==
    \/ RunBegin
    \/ EngineExecute
    \/ EngineSignal
    \/ EngineSnapshot

Spec == InitEngine /\ [][Next]_vars

\* What the constructor prints: the warnings of _preload_data (line 51) and
\* of _get_trading_calendar (line 68) when no data was loaded.
Printed ==
    IF DOMAIN bars = {}
    THEN <<"Pre-loading all historical data...",
           "Warning: No data loaded for the specified universe and date range.",
           "Warning: No data pre-loaded. Falling back to business days.">>
    ELSE <<"Pre-loading all historical data...">>

\* What run_backtest hands to its caller when it returns: the frame of the
\* snapshot history (portfolio.history_df()), or an empty frame when no data
\* was loaded.  The rejections that simulate_execution returns are bound to a
\* local name and dropped (the TODO of line 111); they are no part of it.
RunResult ==
    [history |-> IF pc = "returned_empty" THEN <<>> ELSE daily_history]

-----------------------------------------------------------------------------
(* The sizer (src/core/sizer.py) *)

\* A rounding of n / d that takes a tie away from zero on the positive side
\* (floor(x + 0.5)).
RoundHalfEven_HalfUp(n, d) ==
    LET r == n % d
        q == (n - r) \div d
    IN IF 2 * r < d THEN q ELSE q + 1

\* round(n / d) for d > 0, as Python rounds a float to an integer: to the
\* nearest whole number, a tie to the even one.
RoundHalfEven(n, d) ==
    LET r == n % d
        q == (n - r) \div d
    IN IF 2 * r < d THEN q
       ELSE IF 2 * r > d THEN q + 1
       ELSE IF q % 2 = 0 THEN q ELSE q + 1

\* The order quantity of a symbol before rounding, target_shares -
\* current_shares, as the fraction <<numerator, denominator>>.  Weights are
\* counted in hundredths, share counts in shares.
order_qty(target_w, current_shares, equity, price) ==
    <<target_w * equity - 100 * price * current_shares, 100 * price>>

\* close_prices.get(symbol) is None, NaN or not positive.
NoPrice(close_prices, symbol) ==
    \/ symbol \notin DOMAIN close_prices
    \/ close_prices[symbol].nan
    \/ close_prices[symbol].v <= 0

\* dict.items() as a mapping.
AsMapping(items) ==
    [s \in {items[k][1] : k \in 1..Len(items)} |->
        items[CHOOSE k \in 1..Len(items) : items[k][1] = s][2]]

\* A loop that leaves at the first symbol without a price (break for
\* continue).
RECURSIVE SizerLoop_Break(_, _, _, _, _, _)
SizerLoop_Break(iteration, target_weights, current_positions, equity, close_prices, quantities) ==
    IF iteration = <<>> THEN quantities
    ELSE LET symbol == Head(iteration)
             target_w == Get(target_weights, symbol, 0)
             current_shares == Get(current_positions, symbol, 0)
         IN IF NoPrice(close_prices, symbol)
            THEN quantities
            ELSE LET exact == order_qty(target_w, current_shares, equity, close_prices[symbol].v)
                     rounded == RoundHalfEven(exact[1], exact[2])
                 IN SizerLoop_Break(Tail(iteration), target_weights, current_positions, equity,
                        close_prices,
                        IF Abs(rounded) < 1 THEN quantities
                        ELSE Append(quantities, <<symbol, rounded>>))

target_weights_to_quantities_Break(target_weights, current_positions, equity, close_prices, iteration) ==
    SizerLoop_Break(iteration, target_weights, current_positions, equity, close_prices, <<>>)

\* A loop without the dust filter.
RECURSIVE SizerLoop_NoFilter(_, _, _, _, _, _)
SizerLoop_NoFilter(iteration, target_weights, current_positions, equity, close_prices, quantities) ==
    IF iteration = <<>> THEN quantities
    ELSE LET symbol == Head(iteration)
             target_w == Get(target_weights, symbol, 0)
             current_shares == Get(current_positions, symbol, 0)
         IN IF NoPrice(close_prices, symbol)
            THEN SizerLoop_NoFilter(Tail(iteration), target_weights, current_positions, equity,
                     close_prices, quantities)
            ELSE LET exact == order_qty(target_w, current_shares, equity, close_prices[symbol].v)
                     rounded == RoundHalfEven(exact[1], exact[2])
                 IN SizerLoop_NoFilter(Tail(iteration), target_weights, current_positions, equity,
                        close_prices, Append(quantities, <<symbol, rounded>>))

target_weights_to_quantities_NoFilter(target_weights, current_positions, equity, close_prices, iteration) ==
    SizerLoop_NoFilter(iteration, target_weights, current_positions, equity, close_prices, <<>>)

\* The loop of target_weights_to_quantities over the symbols left, with the
\* items put into quantities so far, in the order in which they were put.
RECURSIVE SizerLoop(_, _, _, _, _, _)
SizerLoop(iteration, target_weights, current_positions, equity, close_prices, quantities) ==
    IF iteration = <<>> THEN quantities
    ELSE LET symbol == Head(iteration)
             target_w == Get(target_weights, symbol, 0)
             current_shares == Get(current_positions, symbol, 0)
         IN IF NoPrice(close_prices, symbol)
            THEN SizerLoop(Tail(iteration), target_weights, current_positions, equity,
                     close_prices, quantities)
            ELSE LET exact == order_qty(target_w, current_shares, equity, close_prices[symbol].v)
                     rounded == RoundHalfEven(exact[1], exact[2])
                 IN SizerLoop(Tail(iteration), target_weights, current_positions, equity,
                        close_prices,
                        IF Abs(rounded) < 1 THEN quantities
                        ELSE Append(quantities, <<symbol, rounded>>))

\* target_weights_to_quantities: the items of the dictionary it returns.
\* iteration is the order in which the loop goes over the set all_symbols,
\* which the language leaves open (for strings it changes from one process
\* to the next with the hash seed).
target_weights_to_quantities(target_weights, current_positions, equity, close_prices, iteration) ==
    SizerLoop(iteration, target_weights, current_positions, equity, close_prices, <<>>)

-----------------------------------------------------------------------------
(* SpecSizer: calls of target_weights_to_quantities with the same arguments. *)
(* The portfolio's positions mapping is the argument current_positions; in   *)
(* this specification it counts whole shares.                                *)

\* A run makes at most MaxSizerCalls calls.
MaxSizerCalls == 2

\* Target weights in hundredths, holdings, equities and close prices: they
\* give whole quantities (0.5 x 1000 / 50 = 10), dust (1.0 x 19 / 50 = 0.38),
\* ties (0.5 x 1050 / 50 = 10.5, and 10.5 - 10 = 0.5) and prices that are
\* skipped.
SizerWeights == {-50, 50, 100}

SizerShares == {2, 10}

SizerEquities == {19, 1000, 1050}

SizerPrices == {NaN, F(0), F(50)}

InitSizer ==
    /\ initial_cash \in InitialCashes
    /\ cash = initial_cash
    /\ positions \in UNION {[K -> SizerShares] : K \in SUBSET Symbols}
    /\ fees_paid = 0
    /\ fills_log = <<>>
    /\ daily_history = <<>>
    /\ last_equity = initial_cash
    /\ NoMarket
    /\ NoEngine
    /\ \E target_weights \in UNION {[K -> SizerWeights] : K \in SUBSET Symbols} :
       \E equity \in SizerEquities :
       \E close_prices \in UNION {[K -> SizerPrices] : K \in SUBSET Symbols} :
           last = [op |-> "arguments", target_weights |-> target_weights, equity |-> equity,
                   close_prices |-> close_prices, calls |-> 0]

\* A call with the arguments of the run; the call record keeps what the
\* previous call returned.
SizerCall ==
    /\ last.calls < MaxSizerCalls
    /\ \E iteration \in ItemOrders(DOMAIN last.target_weights \cup DOMAIN positions) :
           last' = [op |-> "target_weights_to_quantities",
                    target_weights |-> last.target_weights,
                    equity |-> last.equity,
                    close_prices |-> last.close_prices,
                    calls |-> last.calls + 1,
                    iteration |-> iteration,
                    previous |-> IF last.calls = 0 THEN <<>> ELSE <<last.ret>>,
                    ret |-> target_weights_to_quantities(last.target_weights, positions,
                                last.equity, last.close_prices, iteration)]
    /\ UNCHANGED <<ledger, market, engine>>

NextSizer == SizerCall

SpecSizer == InitSizer /\ [][NextSizer]_vars

-----------------------------------------------------------------------------
(* Properties of the ledger, checked under SpecLedger *)

\* Sum of f[s] over the symbols of S, folded over the set.
RECURSIVE SumOver(_, _)
SumOver(S, f) ==
    IF S = {} THEN 0
    ELSE LET s == CHOOSE x \in S : TRUE
         IN f[s] + SumOver(S \ {s}, f)

Held == DOMAIN positions

\* cash + the sum over held symbols of shares x price, written over the whole
\* symbol universe with the symbols that are not held counting 0.
CashPlusHeldValue(prices) ==
    cash + SumOver(Symbols, [s \in Symbols |-> IF s \in Held THEN positions[s] * prices[s].v ELSE 0])

LastIs(op) == last.op = op

\* C3 as written: for every price map with an entry for each held symbol,
\* mark_to_market returns cash + sum of shares x price.  Refuted by an entry
\* that is NaN: the call raises RuntimeError and returns nothing.
C3_EquityIdentity_AnyEntry ==
    (LastIs("mark_to_market") /\ Held \subseteq DOMAIN last.prices)
        => /\ last.ret.raised = "none"
           /\ last.ret.value = F(CashPlusHeldValue(last.prices))

\* C3 (amended): for every price map that has a price that is a number (not
\* NaN) for each held symbol, mark_to_market returns cash + the sum over held
\* symbols of shares x price, and every price map that agrees with it on the
\* held symbols gives the same result, whatever its other entries are.
C3_EquityIdentity ==
    (/\ LastIs("mark_to_market")
     /\ Held \subseteq DOMAIN last.prices
     /\ \A s \in Held : ~last.prices[s].nan)
        => /\ last.ret.raised = "none"
           /\ last.ret.value = F(CashPlusHeldValue(last.prices))
           /\ \A q \in PriceMaps :
                  (Held \subseteq DOMAIN q /\ \A s \in Held : q[s] = last.prices[s])
                      => MarkToMarket(cash, positions, q) = last.ret

\* C3 witness: a short and a long position are marked to market with a price
\* map that covers them.
C3_Witness ==
    /\ LastIs("mark_to_market")
    /\ last.ret.raised = "none"
    /\ \E s, t \in Held : positions[s] < 0 /\ positions[t] > 0

\* C4: a successful apply_fill of a fill (s, p, f) changes cash by exactly
\* -s*p - f, the fill's symbol by exactly +s (the entry then being deleted when
\* its magnitude is below the threshold), fees_paid by exactly f, appends that
\* fill to the fill log and leaves every other symbol's position as it was.
C4_FillConservation ==
    [][(last'.op = "apply_fill" /\ last'.ret.raised = "none") =>
          LET fill == last'.fill
              sym == fill.symbol
              before == IF sym \in DOMAIN positions THEN positions[sym] ELSE 0
          IN /\ cash' - cash = -(fill.shares * fill.price) - fill.fee
             /\ fees_paid' - fees_paid = fill.fee
             /\ fills_log' = fills_log \o <<fill>>
             /\ IF Abs(before + fill.shares) < EPS
                THEN sym \notin DOMAIN positions'
                ELSE sym \in DOMAIN positions' /\ positions'[sym] - before = fill.shares
             /\ \A o \in Symbols \ {sym} :
                    /\ (o \in DOMAIN positions') = (o \in DOMAIN positions)
                    /\ o \in DOMAIN positions => positions'[o] = positions[o]]_vars

\* C4 witness: a fill was applied while another symbol was held.
C4_Witness ==
    /\ LastIs("apply_fill")
    /\ last.ret.raised = "none"
    /\ fills_log # <<>> /\ fills_log[Len(fills_log)] = last.fill
    /\ \E o \in Held : o # last.fill.symbol

\* The last two fills are a buy of n shares of a symbol followed by a sell of
\* n shares of it, and no earlier fill is of that symbol.
RoundTrip(sym) ==
    LET n == Len(fills_log)
    IN /\ n >= 2
       /\ fills_log[n - 1].symbol = sym /\ fills_log[n].symbol = sym
       /\ fills_log[n - 1].shares > 0
       /\ fills_log[n].shares = -fills_log[n - 1].shares
       /\ \A k \in 1..(n - 2) : fills_log[k].symbol # sym

\* C5: positions never holds a symbol whose share count has magnitude below
\* the threshold, and after buying n shares of a symbol that was not held and
\* selling n shares of it the symbol is absent from positions.
C5_PositionPruning ==
    /\ \A s \in Held : Abs(positions[s]) >= EPS
    /\ \A s \in Symbols : RoundTrip(s) => s \notin Held

\* C5 witness: a round trip at two different prices has been applied.
C5_Witness ==
    \E s \in Symbols :
        /\ RoundTrip(s)
        /\ fills_log[Len(fills_log)].price # fills_log[Len(fills_log) - 1].price

\* C6: apply_fill of a fill with price <= 0 or fee < 0 raises, and cash,
\* positions, fees_paid and the fill log are as they were before the call.
C6_InvalidFillAtomic ==
    [][(last'.op = "apply_fill" /\ (last'.fill.price <= 0 \/ last'.fill.fee < 0)) =>
          /\ last'.ret.raised = "ValueError"
          /\ cash' = cash
          /\ positions' = positions
          /\ fees_paid' = fees_paid
          /\ fills_log' = fills_log]_vars

\* C6 witness: a fill with a negative fee and a valid price was refused by a
\* ledger that holds a position.
C6_Witness ==
    /\ LastIs("apply_fill")
    /\ last.fill.fee < 0 /\ last.fill.price > 0
    /\ last.ret.raised = "ValueError"
    /\ Held # {}

\* C7: mark_to_market raises the missing-price error whenever a held symbol
\* has no entry in the price map, and returns no equity value then.
C7_MissingPriceRaises ==
    (LastIs("mark_to_market") /\ \E s \in Held : s \notin DOMAIN last.prices)
        => /\ last.ret.raised = "ValueError"
           /\ last.ret.value = NaN

\* C7 witness: two symbols are held, the price map has a price for one of them
\* only, and the call raised.
C7_Witness ==
    /\ LastIs("mark_to_market")
    /\ last.ret.raised = "ValueError"
    /\ \E s, t \in Held : s \in DOMAIN last.prices /\ t \notin DOMAIN last.prices

\* C13: the snapshot that a take_snapshot call appends has the portfolio's
\* cash of that moment as cash, the sum of shares x price over the positions
\* held at that moment as positions_value, their number as num_positions, and
\* equity = cash + positions_value; the snapshots appended before stay as
\* they are, so every snapshot of the history satisfies the identity.
C13_SnapshotIdentity ==
    [][(last'.op = "take_snapshot" /\ last'.ret.raised = "none") =>
          LET snap == daily_history'[Len(daily_history')]
          IN /\ daily_history' = daily_history \o <<snap>>
             /\ snap.cash = cash
             /\ snap.positions_value =
                    SumOver(Held, [s \in Held |-> positions[s] * last'.prices[s].v])
             /\ snap.num_positions = Cardinality(Held)
             /\ \A k \in 1..Len(daily_history') :
                    daily_history'[k].equity =
                        daily_history'[k].cash + daily_history'[k].positions_value]_vars

\* C13 witness: a snapshot was taken of a portfolio that is short a symbol,
\* with a price map that has prices for both symbols.
C13_Witness ==
    /\ LastIs("take_snapshot")
    /\ last.ret.raised = "none"
    /\ DOMAIN last.prices = Symbols
    /\ daily_history # <<>>
    /\ daily_history[Len(daily_history)].num_positions = 1
    /\ daily_history[Len(daily_history)].positions_value < 0
    /\ daily_history[Len(daily_history)].cash # initial_cash

\* The sum of the fractions f[k], k in S, as a fraction.
RECURSIVE SumFractions(_, _)
SumFractions(S, f) ==
    IF S = {} THEN <<0, 1>>
    ELSE LET k == CHOOSE x \in S : TRUE
             rest == SumFractions(S \ {k}, f)
         IN <<f[k][1] * rest[2] + rest[1] * f[k][2], f[k][2] * rest[2]>>

\* The fractions a and b are the same number.
SameFraction(a, b) == a[2] # 0 /\ b[2] # 0 /\ a[1] * b[2] = b[1] * a[2]

\* The equity of the ledger under a price map that has an entry for each
\* held symbol, as the float that mark_to_market computes.
EquityUnder(prices) ==
    FAdd(F(cash), FSum(Held, [s \in Held |-> FMul(F(positions[s]), prices[s])]))

\* get_weights returned one weight for each held symbol and one for 'cash',
\* the weights sum to 1, and each symbol's weight is shares x price / equity.
WeightsNormalized ==
    /\ last.ret.raised = "none"
    /\ DOMAIN last.ret.value = Held \cup {"cash"}
    /\ SameFraction(SumFractions(DOMAIN last.ret.value, last.ret.value), <<1, 1>>)
    /\ \A s \in Held :
           SameFraction(last.ret.value[s],
                        <<positions[s] * last.prices[s].v, CashPlusHeldValue(last.prices)>>)

\* C14 as written: for a ledger with a position and every price map with an
\* entry for each held symbol under which the equity is not zero, get_weights
\* returns weights that sum to 1.  Refuted by an entry that is NaN: the
\* equity is NaN, which is not zero, and the call raises RuntimeError.
C14_WeightNormalization_AnyEntry ==
    (/\ LastIs("get_weights")
     /\ Held # {}
     /\ Held \subseteq DOMAIN last.prices
     /\ EquityUnder(last.prices) # F(0))
        => WeightsNormalized

\* C14 (amended): for a ledger with a position and every price map with a
\* price that is a number (not NaN) for each held symbol under which the
\* equity is not zero, the weights get_weights returns, the per-symbol ones
\* and 'cash', sum to 1, and each symbol's weight is shares x price / equity.
C14_WeightNormalization ==
    (/\ LastIs("get_weights")
     /\ Held # {}
     /\ Held \subseteq DOMAIN last.prices
     /\ \A s \in Held : ~last.prices[s].nan
     /\ EquityUnder(last.prices) # F(0))
        => WeightsNormalized

\* C14 witness: weights were returned for a ledger that is long one symbol
\* and short the other and has cash.
C14_Witness ==
    /\ LastIs("get_weights")
    /\ last.ret.raised = "none"
    /\ cash # 0
    /\ \E s, t \in Held : positions[s] < 0 /\ positions[t] > 0
    /\ DOMAIN last.ret.value = Symbols \cup {"cash"}

-----------------------------------------------------------------------------
(* Properties of the execution simulator, checked under SpecExec *)

\* The number of entries of a sequence that satisfy Test.
Count(q, Test(_)) == Cardinality({k \in 1..Len(q) : Test(q[k])})

\* The order's symbol has no bar on the order's execution day, or the bar's
\* open is <= 0.
Unresolvable(order) ==
    \/ <<order.execute_dt[1], order.symbol>> \notin DOMAIN bars
    \/ bars[<<order.execute_dt[1], order.symbol>>].open <= 0

\* C9: an order whose symbol has no price, or a price <= 0, on its execution
\* day gets no fill and exactly one rejection entry; the entry carries the
\* order and its reason names the order's symbol and execution date.
C9_RejectionOnMissingPrice ==
    LastIs("simulate_execution") =>
        \A k \in 1..Len(last.orders) :
            LET order == last.orders[k]
                IsOrder(o) == o = order
                IsEntry(r) == r.order = order
                Names(r) == /\ r.reason[2] = order.symbol
                            /\ r.reason[4] = order.execute_dt[1]
                IsFill(f) == f.symbol = order.symbol /\ f.dt = order.execute_dt
            IN Unresolvable(order) =>
                  /\ Count(last.ret.fills, IsFill) = 0
                  /\ Count(last.ret.rejected_log, IsEntry) = Count(last.orders, IsOrder)
                  /\ \A j \in 1..Len(last.ret.rejected_log) :
                         IsEntry(last.ret.rejected_log[j]) => Names(last.ret.rejected_log[j])

\* C9 witness: of two orders one has a bar with open 0 and is rejected, the
\* other is filled.
C9_Witness ==
    /\ LastIs("simulate_execution")
    /\ Len(last.orders) = 2
    /\ Len(last.ret.fills) = 1
    /\ Len(last.ret.rejected_log) = 1
    /\ <<DateOf(last.ret.rejected_log[1].order.execute_dt), last.ret.rejected_log[1].order.symbol>>
           \in DOMAIN bars

\* C16: every fill that simulate_execution returns has as price the open of
\* its symbol on its day and as fee (commission_bps + slippage_bps) x
\* |shares x price| / 10000 on that price; a buy and a sell of the same size
\* at the same price have the same fee, and with bps that are not negative
\* the fee is not negative.
C16_FeeFormula ==
    LastIs("simulate_execution") =>
        \A k \in 1..Len(last.ret.fills) :
            LET fill == last.ret.fills[k]
                bps == cost_model.commission_bps + cost_model.slippage_bps
            IN /\ <<DateOf(fill.dt), fill.symbol>> \in DOMAIN bars
               /\ fill.price = bars[<<DateOf(fill.dt), fill.symbol>>].open
               /\ fill.fee * 10000 = bps * Abs(fill.shares * fill.price)
               /\ (cost_model.commission_bps >= 0 /\ cost_model.slippage_bps >= 0) => fill.fee >= 0
               /\ \A j \in 1..Len(last.ret.fills) :
                      (/\ last.ret.fills[j].shares = -fill.shares
                       /\ last.ret.fills[j].price = fill.price)
                          => last.ret.fills[j].fee = fill.fee

\* C16 witness: with costs of 1 and 10 bps a buy and a sell of the same size
\* were filled at the same price, with a fee that is not 0.
C16_Witness ==
    /\ LastIs("simulate_execution")
    /\ cost_model.commission_bps = 1 /\ cost_model.slippage_bps = 10
    /\ Len(last.ret.fills) = 2
    /\ last.ret.fills[1].shares = -last.ret.fills[2].shares
    /\ last.ret.fills[1].price = last.ret.fills[2].price
    /\ last.ret.fills[1].fee > 0

-----------------------------------------------------------------------------
(* Properties of the sizer, checked under SpecSizer *)

\* The symbols of the dictionary a call returned.
Keys(items) == {items[k][1] : k \in 1..Len(items)}

\* The symbol has a price and its order quantity rounds to the whole number q.
RoundsTo(symbol, q) ==
    /\ ~NoPrice(last.close_prices, symbol)
    /\ LET exact == order_qty(Get(last.target_weights, symbol, 0), Get(positions, symbol, 0),
                              last.equity, last.close_prices[symbol].v)
       IN RoundHalfEven(exact[1], exact[2]) = q

\* C15: target_weights_to_quantities returns no entry whose quantity has a
\* magnitude below 1 share: every returned quantity is a whole number that is
\* not 0, and every symbol whose rounded order quantity is 0 is absent from
\* the returned mapping.
C15_DustFiltering ==
    LastIs("target_weights_to_quantities") =>
        /\ \A k \in 1..Len(last.ret) :
               /\ last.ret[k][2] \in Int
               /\ Abs(last.ret[k][2]) >= 1
               /\ RoundsTo(last.ret[k][1], last.ret[k][2])
        /\ \A s \in Symbols : RoundsTo(s, 0) => s \notin Keys(last.ret)

\* C15 witness: one symbol's order quantity is not 0 and rounds to 0, and
\* the symbol is absent; the other symbol has an entry.
C15_Witness ==
    /\ LastIs("target_weights_to_quantities")
    /\ \E s, t \in Symbols :
           /\ RoundsTo(s, 0)
           /\ order_qty(Get(last.target_weights, s, 0), Get(positions, s, 0),
                         last.equity, last.close_prices[s].v)[1] # 0
           /\ s \notin Keys(last.ret)
           /\ t \in Keys(last.ret)

\* C17: a call of target_weights_to_quantities leaves its arguments (the
\* target weights, the portfolio's positions mapping, the equity, the close
\* prices) as they were, and returns the same symbol-to-quantity mapping as
\* the call before it with the same arguments.
C17_SizerPurity ==
    [][last'.op = "target_weights_to_quantities" =>
          /\ positions' = positions
          /\ last'.target_weights = last.target_weights
          /\ last'.equity = last.equity
          /\ last'.close_prices = last.close_prices
          /\ last'.previous # <<>> => AsMapping(last'.ret) = AsMapping(last'.previous[1])]_vars

\* C17 witness: two calls went over the symbols in different orders and
\* returned the two entries in different orders.
C17_Witness ==
    /\ LastIs("target_weights_to_quantities")
    /\ last.calls = 2
    /\ Len(last.ret) = 2
    /\ last.previous[1] # last.ret
    /\ DOMAIN positions # {}

-----------------------------------------------------------------------------
(* Properties of an engine run, checked under Spec *)

Running == pc \in {"execute", "signal", "snapshot", "raised", "returned"} /\ trading_days # <<>>

\* The position of a trading day in the calendar.
DayIndex(dt) == CHOOSE j \in 1..Len(trading_days) : trading_days[j] = dt

\* Step 1 of the trading day dt has been taken.
ExecutionStepTaken(dt) ==
    /\ Running
    /\ \/ DayIndex(dt) < i
       \/ DayIndex(dt) = i /\ pc # "execute"

\* simulate_execution returned a fill of the order on the day.
FilledOn(order, day) ==
    \E k \in 1..Len(outcomes) :
        /\ outcomes[k].day = day
        /\ \E j \in 1..Len(outcomes[k].fills) :
               LET fill == outcomes[k].fills[j]
               IN fill.symbol = order.symbol /\ fill.shares = order.shares
                  /\ fill.dt = order.execute_dt

\* simulate_execution returned a rejection of the order on the day.
RejectedOn(order, day) ==
    \E k \in 1..Len(outcomes) :
        /\ outcomes[k].day = day
        /\ \E j \in 1..Len(outcomes[k].rejected) : outcomes[k].rejected[j].order = order

IsScheduled(order) ==
    \E d \in DOMAIN scheduled_orders :
        \E k \in 1..Len(scheduled_orders[d]) : scheduled_orders[d][k] = order

\* The order's symbol has a bar with a valid open on the order's execution day.
HasOpen(order) ==
    /\ <<order.execute_dt[1], order.symbol>> \in DOMAIN bars
    /\ bars[<<order.execute_dt[1], order.symbol>>].open > 0

\* The scheduling half of C1, which the code satisfies: every order created
\* on a trading day has as execute_dt the trading day right after it, and is
\* in the schedule under that day, and no other, until that day's step 1.
ScheduledForNextDay ==
    \A k \in 1..Len(created) :
        LET order == created[k]
            g == DayIndex(order.generated_dt)
        IN /\ g < Len(trading_days)
           /\ order.execute_dt = trading_days[g + 1]
           /\ \A d \in DOMAIN scheduled_orders :
                  (\E j \in 1..Len(scheduled_orders[d]) : scheduled_orders[d][j] = order)
                      => d = order.execute_dt
           /\ ~ExecutionStepTaken(order.execute_dt) => IsScheduled(order)
           /\ ExecutionStepTaken(order.execute_dt) => ~IsScheduled(order)

\* C1: every order created on a rebalance day t has as execute_dt the trading
\* day right after t, and is executed (filled or rejected by the execution
\* simulator) on that day and on no other.
C1_NoLookaheadScheduling ==
    \A k \in 1..Len(created) :
        LET order == created[k]
            g == DayIndex(order.generated_dt)
        IN /\ g < Len(trading_days)
           /\ order.execute_dt = trading_days[g + 1]
           /\ ExecutionStepTaken(order.execute_dt) =>
                  \/ FilledOn(order, order.execute_dt)
                  \/ RejectedOn(order, order.execute_dt)
           /\ \A j \in 1..Len(trading_days) :
                  (FilledOn(order, trading_days[j]) \/ RejectedOn(order, trading_days[j]))
                      => trading_days[j] = order.execute_dt

\* C2: the engine's call of simulate_execution for the orders due on a day
\* returns, and every order of it whose symbol has a valid open on the
\* order's execute_dt is filled at that open, which is in the fill log; no
\* fill of the run has another price.
C2_FillAtNextOpen ==
    /\ \A k \in 1..Len(handed) :
           HasOpen(handed[k]) =>
               \E j \in 1..Len(fills_log) :
                   /\ fills_log[j].symbol = handed[k].symbol
                   /\ fills_log[j].dt = handed[k].execute_dt
                   /\ fills_log[j].price = bars[<<handed[k].execute_dt[1], handed[k].symbol>>].open
    /\ \A k \in 1..Len(outcomes) :
           \A j \in 1..Len(outcomes[k].fills) :
               LET fill == outcomes[k].fills[j]
               IN /\ <<fill.dt[1], fill.symbol>> \in DOMAIN bars
                  /\ fill.price = bars[<<fill.dt[1], fill.symbol>>].open

\* A held symbol has no close price in the price table on the day.
HeldWithoutClose(dt) == \E s \in Held : <<dt[1], s>> \notin DOMAIN bars

\* C8: a run that marks the portfolio to market on a day on which a held
\* symbol has no close price aborts with the missing-price error (ValueError)
\* and takes no snapshot of that day; a run does not abort in mark_to_market
\* on a day on which every held symbol has a close price.
C8_MissingCloseIsMissingPrice ==
    /\ (Running /\ error \in {"ValueError", "RuntimeError"}) =>
           /\ HeldWithoutClose(t_date)
           /\ error = "ValueError"
    /\ \A k \in 1..Len(daily_history) : ~HeldWithoutClose(daily_history[k].datetime)

\* The part of C8 that the code satisfies: a day on which a held symbol has
\* no close price gets no snapshot, and mark_to_market aborts the run on such
\* days only.
MissingCloseAborts ==
    /\ (Running /\ error \in {"ValueError", "RuntimeError"}) => HeldWithoutClose(t_date)
    /\ \A k \in 1..Len(daily_history) : ~HeldWithoutClose(daily_history[k].datetime)

PoppedOnce ==
    \A k \in 1..Len(handed) :
        /\ ~IsScheduled(handed[k])
        /\ \A j \in 1..Len(handed) : handed[j] = handed[k] => j = k

\* The run was ended by the call that executes the day's orders.
AbortedInExecution == pc = "raised" /\ error = "TypeError"

\* C11: an order that is due and has no valid price does not end the run in
\* the step that executes it, and when the run returns, every rejection that
\* simulate_execution returned during the run is in what the caller gets.
C11_RejectionsRecorded ==
    /\ \A k \in 1..Len(handed) : ~HasOpen(handed[k]) => ~AbortedInExecution
    /\ pc = "returned" =>
           \A k \in 1..Len(outcomes) :
               \A j \in 1..Len(outcomes[k].rejected) :
                   /\ "rejected" \in DOMAIN RunResult
                   /\ \E n \in 1..Len(RunResult.rejected) :
                          RunResult.rejected[n] = outcomes[k].rejected[j]

\* C12: when run_backtest returns without an error, the snapshot history has
\* exactly one snapshot for each day of the engine's trading calendar, in the
\* calendar's order.
C12_SnapshotPerDay ==
    pc \in {"returned", "returned_empty"} =>
        /\ Len(daily_history) = Len(trading_days)
        /\ \A k \in 1..Len(trading_days) : daily_history[k].datetime = trading_days[k]

\* The part of C12 that the code satisfies: a run over loaded data that
\* returns has one snapshot for each day of the calendar, in order, and at
\* every moment of a run the days before the current one have theirs.
SnapshotPerDayWithData ==
    /\ pc = "returned" =>
           /\ Len(daily_history) = Len(trading_days)
           /\ \A k \in 1..Len(trading_days) : daily_history[k].datetime = trading_days[k]
    /\ pc \in {"execute", "signal", "snapshot"} =>
           /\ Len(daily_history) = i - 1
           /\ \A k \in 1..(i - 1) : daily_history[k].datetime = trading_days[k]

\* The orders that the step has created.
NewlyCreated == SubSeq(created', Len(created) + 1, Len(created'))

\* C18: the orders that a day's signal step schedules, and with them the
\* order in which they are executed and applied, are the same for every
\* order in which the symbols of the strategy's quantities can come (the
\* iteration order of the sizer's symbol set): two runs on the same inputs
\* take the same step.
C18_DeterministicLedger ==
    [][created' # created =>
          LET target_quantities == [s \in {NewlyCreated[k].symbol : k \in 1..Len(NewlyCreated)} |->
                  NewlyCreated[CHOOSE k \in 1..Len(NewlyCreated) : NewlyCreated[k].symbol = s].shares]
          IN \A keys \in ItemOrders(DOMAIN target_quantities) :
                 /\ created' = created \o NewOrders(keys, target_quantities, t_date, trading_days[i + 1])
                 /\ scheduled_orders' = Extended(scheduled_orders, trading_days[i + 1],
                        NewOrders(keys, target_quantities, t_date, trading_days[i + 1]))]_vars

\* The number of times the order was passed to simulate_execution.
TimesHanded(order) == Cardinality({j \in 1..Len(handed) : handed[j] = order})

\* The number of fills of the order in the fill log.
FillsOf(order) ==
    Cardinality({j \in 1..Len(fills_log) :
        /\ fills_log[j].symbol = order.symbol
        /\ fills_log[j].dt = order.execute_dt
        /\ fills_log[j].shares = order.shares})

\* C19: an order that the engine has scheduled is in the schedule and has
\* not been passed to the execution simulator before its execute_dt; once the
\* execution step of its execute_dt is taken it has been passed exactly once,
\* the simulator has processed it on that day (filled or rejected it), and it
\* is in the schedule no more; it has at most one fill.
C19_ConsumedExactlyOnce ==
    \A k \in 1..Len(created) :
        LET order == created[k]
        IN /\ ~ExecutionStepTaken(order.execute_dt) =>
                  IsScheduled(order) /\ TimesHanded(order) = 0
           /\ ExecutionStepTaken(order.execute_dt) =>
                  /\ TimesHanded(order) = 1
                  /\ FilledOn(order, order.execute_dt) \/ RejectedOn(order, order.execute_dt)
                  /\ ~IsScheduled(order)
           /\ FillsOf(order) <= 1

\* The part of C19 that the code satisfies: an order leaves the schedule in
\* the execution step of its execute_dt, is an argument of that step's call
\* and of no other call, and has at most one fill.
PoppedWhenDue ==
    \A k \in 1..Len(created) :
        LET order == created[k]
        IN /\ ~ExecutionStepTaken(order.execute_dt) =>
                  IsScheduled(order) /\ TimesHanded(order) = 0
           /\ ExecutionStepTaken(order.execute_dt) =>
                  TimesHanded(order) = 1 /\ ~IsScheduled(order)
           /\ FillsOf(order) <= 1

\* The datetime a is later than the datetime b.
Later(a, b) == a[1] > b[1] \/ (a[1] = b[1] /\ a[2] > b[2])

\* C20: every order the engine has created has an execute_dt later than its
\* generated_dt; every fill that simulate_execution makes of it has the
\* order's execute_dt as dt; and every fill that an execution step of the run
\* got is of an order passed to that step and is dated after the order's
\* generated_dt.
C20_OrderTiming ==
    /\ \A k \in 1..Len(created) :
           /\ Later(created[k].execute_dt, created[k].generated_dt)
           /\ \A j \in 1..Len(simulate_execution(<<created[k]>>).fills) :
                  LET fill == simulate_execution(<<created[k]>>).fills[j]
                  IN /\ fill.dt = created[k].execute_dt
                     /\ Later(fill.dt, created[k].generated_dt)
    /\ \A k \in 1..Len(outcomes) :
           \A j \in 1..Len(outcomes[k].fills) :
               \E n \in 1..Len(handed) :
                   /\ handed[n].symbol = outcomes[k].fills[j].symbol
                   /\ handed[n].execute_dt = outcomes[k].fills[j].dt
                   /\ Later(outcomes[k].fills[j].dt, handed[n].generated_dt)

\* C20 witness: an order was created on a day and is due on the next trading
\* day, which is not the next calendar day, and has an open to be filled at
\* on that day.
C20_Witness ==
    \E k \in 1..Len(created) :
        /\ DateOf(created[k].execute_dt) > DateOf(created[k].generated_dt) + 1
        /\ HasOpen(created[k])
        /\ Len(simulate_execution(<<created[k]>>).fills) = 1

\* C21: when a call of the ledger raises on a day of a run (an invalid fill,
\* a missing price of a held symbol, an equity mismatch), the run ends in that
\* step with that error, without a snapshot of the day; and a run that has
\* ended with an error takes no further step: it processes no later day and
\* returns nothing.
C21_FatalNoPartialResult ==
    [][/\ pc # "raised"
       /\ (pc \in {"signal", "snapshot"} /\ last'.op # "init" /\ last'.ret.raised # "none") =>
              /\ pc' = "raised"
              /\ error' = last'.ret.raised
              /\ i' = i
              /\ daily_history' = daily_history
       /\ pc' = "raised" => error' # "none"
       /\ pc' \in {"returned", "returned_empty"} => error' = "none"]_vars

\* C21 witness: a run has ended with an error of mark_to_market after it took
\* a snapshot of an earlier day and before a later day of the calendar.
C21_Witness ==
    /\ pc = "raised"
    /\ error \in {"ValueError", "RuntimeError"}
    /\ daily_history # <<>>
    /\ i < Len(trading_days)

\* The trading day k is the last day of the calendar in its month.
LastTradingDayOfMonth(k) ==
    \A j \in 1..Len(trading_days) :
        Month(DateOf(trading_days[j])) = Month(DateOf(trading_days[k])) => j <= k

\* C22: under the month-end schedule a day of the trading calendar is a
\* rebalance day exactly when it is the last trading day of its month in the
\* calendar, also when the month's last calendar day is no trading day.
\* (Stated for the days that have a later day in the calendar, so that the
\* month of the day is not cut short by the calendar's end.)
C22_MonthlySchedule ==
    rebalance_schedule = "M" =>
        \A k \in 1..(Len(trading_days) - 1) :
            is_rebalance_day("M", trading_days[k]) <=> LastTradingDayOfMonth(k)

\* The part of C22 that the code satisfies: under the month-end schedule a
\* day is a rebalance day exactly when the next calendar day is in another
\* month.
MonthEndIsCalendarDay ==
    rebalance_schedule = "M" =>
        \A k \in 1..Len(trading_days) :
            is_rebalance_day("M", trading_days[k])
                <=> Month(DateOf(trading_days[k]) + 1) # Month(DateOf(trading_days[k]))

\* The message is among the lines printed.
Flagged(message) == \E k \in 1..Len(Printed) : Printed[k] = message

\* C23: when the data provider has no bars, the constructor and run_backtest
\* raise nothing, the trading calendar holds exactly the business days from
\* start_date on, in order, and the fallback is reported by a printed
\* warning, which is not printed when data was loaded.
C23_EmptyDataFallback ==
    /\ DOMAIN bars = {} =>
           /\ pc \in {"start", "returned_empty"}
           /\ error = "none"
           /\ \A d \in 1..NumDates :
                  (\E k \in 1..Len(trading_days) : trading_days[k] = Midnight(d))
                      <=> (d >= DateOf(start_date) /\ Weekday(d) <= 4)
           /\ \A k \in 1..Len(trading_days) :
                  \A j \in 1..Len(trading_days) :
                      j < k => DateOf(trading_days[j]) < DateOf(trading_days[k])
           /\ Flagged("Warning: No data pre-loaded. Falling back to business days.")
    /\ DOMAIN bars # {} =>
           ~Flagged("Warning: No data pre-loaded. Falling back to business days.")

\* C23 witness: a run without data has returned; its calendar has the Friday
\* and not the weekend after it.
C23_Witness ==
    /\ DOMAIN bars = {}
    /\ pc = "returned_empty"
    /\ trading_days # <<>>
    /\ trading_days[1] = Midnight(1)
    /\ \A k \in 1..Len(trading_days) : trading_days[k] # Midnight(2)

\* C27: the signal step of a day consults the portfolio and the strategy on
\* every trading day under the daily schedule, and under the weekly schedule
\* exactly when the day is a Friday; the decision is a function of the
\* schedule and the date alone.
C27_DailyWeeklySchedule ==
    [][(pc = "signal" /\ rebalance_schedule \in {"D", "W"}) =>
          /\ (last'.op = "mark_to_market")
                 <=> (rebalance_schedule = "D" \/ Weekday(DateOf(t_date)) = 4)
          /\ last'.op # "mark_to_market" =>
                 UNCHANGED <<ledger, last, scheduled_orders, created, consulted>>]_vars

\* C27 witness: under the weekly schedule the strategy's orders of a Friday
\* are scheduled, and the run has gone on to a day that is no Friday.
C27_Witness ==
    /\ rebalance_schedule = "W"
    /\ created # <<>>
    /\ Weekday(DateOf(created[1].generated_dt)) = 4
    /\ Running
    /\ Weekday(DateOf(t_date)) # 4

\* The equity that the k-th snapshot's daily_return refers to: the equity of
\* the snapshot before it, the initial cash for the first one.
PreviousEquity(k) == IF k = 1 THEN initial_cash ELSE daily_history[k - 1].equity

\* C24: the daily_return of each snapshot is equity / previous equity - 1,
\* the previous equity being that of the snapshot before it (the initial cash
\* for the first snapshot), and is 0 when the previous equity is exactly 0;
\* the reference equity is the equity of the last snapshot taken.
C24_DailyReturnChaining ==
    /\ \A k \in 1..Len(daily_history) :
           LET snap == daily_history[k]
           IN IF PreviousEquity(k) = 0
              THEN snap.daily_return[1] = 0 /\ snap.daily_return[2] # 0
              ELSE snap.daily_return =
                       <<snap.equity - PreviousEquity(k), PreviousEquity(k)>>
    /\ last_equity = PreviousEquity(Len(daily_history) + 1)

\* C24 witness: the second snapshot of a run has another equity than the
\* first, which has another equity than the initial cash.
C24_Witness ==
    /\ Len(daily_history) >= 2
    /\ daily_history[1].equity # initial_cash
    /\ daily_history[2].equity # daily_history[1].equity
    /\ daily_history[2].daily_return[1] # 0

\* A run that starts without cash takes its first snapshot with a previous
\* equity of exactly 0.
ZeroPreviousEquityReached ==
    /\ daily_history # <<>>
    /\ initial_cash = 0
    /\ daily_history[1].daily_return = <<0, 1>>

\* C25: when the equity under the given prices is below the tolerance (an
\* integer amount: exactly zero), get_weights raises nothing and returns a
\* mapping whose keys are exactly the held symbols, each with weight 0, and
\* no weight in it is a quotient by the equity.
C25_ZeroEquityGuard ==
    (/\ LastIs("get_weights")
     /\ Held \subseteq DOMAIN last.prices
     /\ EquityUnder(last.prices) = F(0))
        => /\ last.ret.raised = "none"
           /\ DOMAIN last.ret.value = Held
           /\ \A s \in Held : last.ret.value[s] = <<0, 1>>

\* C25 witness: get_weights was called on a ledger that is short both
\* symbols, with prices under which its equity is zero.
C25_Witness ==
    /\ LastIs("get_weights")
    /\ Held = Symbols
    /\ DOMAIN last.prices = Symbols
    /\ EquityUnder(last.prices) = F(0)
    /\ cash # 0
    /\ last.ret.raised = "none"

\* The symbols that target_weights_to_quantities sizes: those of the target
\* weights and of the positions whose close price is present, a number and
\* positive.
Sized ==
    {s \in DOMAIN last.target_weights \cup DOMAIN positions :
        /\ s \in DOMAIN last.close_prices
        /\ ~last.close_prices[s].nan
        /\ last.close_prices[s].v > 0}

\* q is round(target_weight x equity / price - current_shares) of the
\* symbol: the whole number nearest to it, the even one of the two when it
\* lies halfway.  A symbol without a target weight has target weight 0, one
\* without a position holds 0 shares; weights are in hundredths.
IsRoundedQuantity(s, q) ==
    LET target_weight == IF s \in DOMAIN last.target_weights THEN last.target_weights[s] ELSE 0
        current_shares == IF s \in DOMAIN positions THEN positions[s] ELSE 0
        d == 100 * last.close_prices[s].v
        n == target_weight * last.equity - d * current_shares
    IN /\ q \in Int
       /\ 2 * Abs(n - q * d) <= d
       /\ 2 * Abs(n - q * d) = d => q % 2 = 0

\* C26: target_weights_to_quantities returns exactly the mapping that holds,
\* for each symbol of the target weights and of the positions whose price is
\* present, not NaN and positive, the rounded order quantity
\* round(target_weight x equity / price - current_shares) when its magnitude
\* is at least 1; a held symbol without a target weight is sized with weight
\* 0, and a symbol without such a price has no entry.
C26_SizerReference ==
    LastIs("target_weights_to_quantities") =>
        /\ Cardinality(Keys(last.ret)) = Len(last.ret)
        /\ Keys(last.ret) \subseteq Sized
        /\ \A s \in Keys(last.ret) :
               /\ IsRoundedQuantity(s, AsMapping(last.ret)[s])
               /\ Abs(AsMapping(last.ret)[s]) >= 1
        /\ \A s \in Sized \ Keys(last.ret) : IsRoundedQuantity(s, 0)

\* C26 witness: a held symbol without a target weight got an order that
\* sells the whole holding, and a symbol with a target weight and no usable
\* price got no entry.
C26_Witness ==
    /\ LastIs("target_weights_to_quantities")
    /\ \E s, t \in Symbols :
           /\ s \in DOMAIN positions \ DOMAIN last.target_weights
           /\ s \in Keys(last.ret)
           /\ AsMapping(last.ret)[s] = -positions[s]
           /\ t \in DOMAIN last.target_weights \ Sized
           /\ t \notin Keys(last.ret)

\* An order quantity that lies halfway between two whole numbers was
\* rounded to the even one: 0.5 x 1050 / 50 - 2 = 8.5 gives 8.
TieRoundedToEven ==
    /\ LastIs("target_weights_to_quantities")
    /\ \E s \in Keys(last.ret) :
           /\ s \in DOMAIN positions
           /\ s \in DOMAIN last.target_weights
           /\ 2 * (last.target_weights[s] * last.equity
                    - 100 * last.close_prices[s].v * positions[s])
                  = 17 * 100 * last.close_prices[s].v
           /\ AsMapping(last.ret)[s] = 8

\* The number of rows of the price table dated at or before dt.
RowsUpTo(dt) == Cardinality({d \in PivotIndex : d <= DateOf(dt)})

\* C28: on every rebalance day t with at least required_lookback rows of
\* history up to and including t, the window passed to the strategy has
\* exactly required_lookback rows and its last row is t.
C28_WindowLength ==
    \A k \in 1..Len(consulted) :
        RowsUpTo(consulted[k].dt) >= required_lookback =>
            /\ Len(consulted[k].data) = required_lookback
            /\ consulted[k].data[Len(consulted[k].data)] = consulted[k].dt

\* The window the strategy gets holds the day's row and the required_lookback
\* rows before it, or every row up to the day when there are fewer.
WindowHoldsLookbackAndDay ==
    \A k \in 1..Len(consulted) :
        /\ Len(consulted[k].data) =
               IF RowsUpTo(consulted[k].dt) > required_lookback
               THEN required_lookback + 1 ELSE RowsUpTo(consulted[k].dt)
        /\ consulted[k].data[Len(consulted[k].data)] = consulted[k].dt

\* C29: every row of the history window passed to the strategy on day t is
\* dated at or before t, the rows are consecutive rows of the price table
\* and end with the row of t, and the prices used to size are the row of t.
C29_WindowNoLookahead ==
    \A k \in 1..Len(consulted) :
        LET data == consulted[k].data
            t == DateOf(consulted[k].dt)
        IN /\ data # <<>>
           /\ \A j \in 1..Len(data) : DateOf(data[j]) \in PivotIndex /\ DateOf(data[j]) <= t
           /\ data[Len(data)] = consulted[k].dt
           /\ \A j \in 1..(Len(data) - 1) :
                  /\ DateOf(data[j]) < DateOf(data[j + 1])
                  /\ ~\E d \in PivotIndex : DateOf(data[j]) < d /\ d < DateOf(data[j + 1])
           /\ consulted[k].close_prices = PivotRow("adj_close", t)

\* C29 witness: the strategy got a window of two rows or more on a day
\* after which the price table has a further row.
C29_Witness ==
    /\ consulted # <<>>
    /\ Len(consulted[1].data) >= 2
    /\ \E d \in PivotIndex : d > DateOf(consulted[1].dt)
    /\ consulted[1].close_prices # PivotRow("adj_close", DateOf(consulted[1].dt) + 1)

\* The day has a snapshot.
SnapshotTaken(dt) == \E k \in 1..Len(daily_history) : daily_history[k].datetime = dt

\* The strategy was consulted on the day.
Consulted(dt) == \E k \in 1..Len(consulted) : consulted[k].dt = dt

\* C30: on every day t that the run processes, the engine first executes the
\* orders scheduled for t and applies their fills, then (on a rebalance day)
\* consults the strategy, then takes the snapshot; the portfolio state the
\* strategy sees and the snapshot of t are taken from a ledger that holds
\* every fill dated t, and no fill is applied after the strategy was
\* consulted or the snapshot was taken on its day.
C30_WithinDayOrdering ==
    [][/\ pc = "execute" =>
              /\ pc' = "signal"
              /\ PopOrders(scheduled_orders, t_date) # <<>> =>
                     /\ Len(outcomes') = Len(outcomes) + 1
                     /\ outcomes'[Len(outcomes')].day = t_date
                     /\ fills_log' = fills_log \o outcomes'[Len(outcomes')].fills
       /\ fills_log' # fills_log =>
              /\ pc = "execute"
              /\ ~Consulted(t_date)
              /\ ~SnapshotTaken(t_date)
       /\ consulted' # consulted =>
              /\ pc = "signal" /\ pc' = "snapshot"
              /\ ~SnapshotTaken(t_date)
              /\ consulted'[Len(consulted')].dt = t_date
              /\ consulted'[Len(consulted')].fills_log = fills_log
              /\ consulted'[Len(consulted')].portfolio_state.positions = positions
              /\ consulted'[Len(consulted')].portfolio_state.cash = cash
       /\ daily_history' # daily_history =>
              /\ pc = "snapshot"
              /\ daily_history'[Len(daily_history')].datetime = t_date
              /\ daily_history'[Len(daily_history')].cash = cash
              /\ daily_history'[Len(daily_history')].num_positions = Cardinality(Held)
              /\ UNCHANGED <<cash, positions, fills_log>>]_vars

\* The three steps of a day come in their order, and neither the strategy's
\* call nor the snapshot changes the fill log: the part of C30 that does not
\* rest on the execution of the day's orders.
StepsInOrder ==
    [][/\ pc = "execute" => pc' \in {"signal", "raised"}
       /\ pc = "signal" => pc' \in {"snapshot", "raised"} /\ fills_log' = fills_log
       /\ pc = "snapshot" => pc' \in {"execute", "returned", "raised"} /\ fills_log' = fills_log
       /\ consulted' # consulted =>
              /\ pc = "signal"
              /\ ~SnapshotTaken(t_date)
              /\ consulted'[Len(consulted')].fills_log = fills_log
       /\ daily_history' # daily_history => pc = "snapshot"]_vars

\* The last day of the trading calendar.
FinalDay == trading_days[Len(trading_days)]

\* C31: a signal generated on the final trading day produces no order and so
\* no fill, no fill in the fill log is dated after the final trading day,
\* and a rebalance on the final day is no error: the strategy is consulted,
\* the final snapshot is taken and the run returns.
C31_OrdersBeyondHorizon ==
    [][/\ Running' =>
              /\ \A k \in 1..Len(created') : created'[k].generated_dt # FinalDay
              /\ \A k \in 1..Len(created') : DateOf(created'[k].execute_dt) <= DateOf(FinalDay)
              /\ \A k \in 1..Len(fills_log') : DateOf(fills_log'[k].dt) <= DateOf(FinalDay)
       /\ (pc = "signal" /\ i = Len(trading_days) /\ consulted' # consulted) =>
              /\ pc' = "snapshot" /\ error' = "none"
              /\ UNCHANGED <<scheduled_orders, created>>
       /\ (pc = "snapshot" /\ i = Len(trading_days) /\ Consulted(t_date)) =>
              /\ pc' = "returned" /\ error' = "none"
              /\ Len(daily_history') = Len(daily_history) + 1
              /\ daily_history'[Len(daily_history')].datetime = FinalDay]_vars

\* C31 witness: a run of two days or more returned after a rebalance on its
\* final day, and the final day has a snapshot.
C31_Witness ==
    /\ pc = "returned"
    /\ Len(trading_days) >= 2
    /\ Consulted(FinalDay)
    /\ SnapshotTaken(FinalDay)
    /\ RunResult.history = daily_history

\* The history has one snapshot for each day of the trading calendar, in the
\* calendar's order.
FullHistory(history) ==
    /\ Len(history) = Len(trading_days)
    /\ \A k \in 1..Len(trading_days) : history[k].datetime = trading_days[k]

\* The loop goes from a day to the next one only, after the day's snapshot,
\* and the next day has a later date.
ForwardOnly ==
    /\ i' \in {i, i + 1}
    /\ i' = i + 1 =>
           /\ pc = "snapshot" /\ pc' = "execute"
           /\ i' <= Len(trading_days)
           /\ DateOf(trading_days[i]) < DateOf(trading_days[i'])
           /\ Len(daily_history') = i

\* C32: a run that no error ends processes each day of the trading calendar
\* once, in increasing date order, never goes back to an earlier day, and
\* ends after the last day of the calendar by returning the full snapshot
\* history.
C32_ForwardOnlyTermination ==
    [][/\ ForwardOnly
       /\ pc' \in {"returned", "returned_empty"} =>
              /\ error' = "none"
              /\ FullHistory(RunResult'.history)]_vars

\* With data loaded, a run that no error ends processes each day once, in
\* order, and returns the full snapshot history.
ForwardOnlyWithData ==
    [][/\ ForwardOnly
       /\ pc' = "returned" =>
              /\ error' = "none"
              /\ i' = Len(trading_days)
              /\ FullHistory(RunResult'.history)]_vars

\* The loop of run_backtest goes on as long as it can.
SpecFair == Spec /\ WF_vars(Next)

\* Every run ends: it returns or it raises.
RunTerminates == <>(pc \in {"returned", "returned_empty", "raised"})

\* C33: the signal-generation step of a day (mark_to_market, get_weights,
\* the portfolio state, the strategy's call and the scheduling of its
\* orders) leaves the ledger as it was: cash, positions, fees_paid, the fill
\* log, the snapshot history and the reference equity; the positions mapping
\* the strategy was handed is still the ledger's after the call; and the
\* ledger changes only where apply_fill (step 1) and take_snapshot (step 3)
\* are called.
C33_SignalLeavesLedger ==
    [][/\ pc = "signal" => UNCHANGED ledger
       /\ consulted' # consulted =>
              consulted'[Len(consulted')].portfolio_state.positions = positions'
       /\ <<cash, positions, fees_paid, fills_log>>' # <<cash, positions, fees_paid, fills_log>>
              => pc = "execute"
       /\ <<daily_history, last_equity>>' # <<daily_history, last_equity>>
              => pc = "snapshot"]_vars

\* C33 witness: the strategy was consulted on a ledger that holds a
\* position, its orders were scheduled, and the day's snapshot is next.
C33_Witness ==
    /\ pc = "snapshot"
    /\ Consulted(t_date)
    /\ Held # {}
    /\ \E k \in 1..Len(created) : created[k].generated_dt = t_date
    /\ ~SnapshotTaken(t_date)

\* The sum of f(fill) over the first k fills of the log.
RECURSIVE SumOverLog(_, _)
SumOverLog(f(_), k) == IF k = 0 THEN 0 ELSE SumOverLog(f, k - 1) + f(fills_log[k])

\* The shares of the symbol in the first k fills of the log.
SharesInLog(s, k) ==
    LET shares_of(fill) == IF fill.symbol = s THEN fill.shares ELSE 0
    IN SumOverLog(shares_of, k)

\* The shares of the symbol in the first k fills of the log since its
\* position was last removed: a fill of the symbol that brings the count
\* below the threshold removes the position, and what was left is dropped.
RECURSIVE SharesSinceRemoval(_, _)
SharesSinceRemoval(s, k) ==
    IF k = 0 THEN 0
    ELSE IF fills_log[k].symbol # s THEN SharesSinceRemoval(s, k - 1)
    ELSE IF Abs(SharesSinceRemoval(s, k - 1) + fills_log[k].shares) < EPS THEN 0
    ELSE SharesSinceRemoval(s, k - 1) + fills_log[k].shares

\* Cash and fees reconcile with the fill log.
CashAndFeesReconcile ==
    LET fee_of(fill) == fill.fee
    IN /\ cash = initial_cash + SumOverLog(cash_change, Len(fills_log))
       /\ fees_paid = SumOverLog(fee_of, Len(fills_log))

\* C34 as written: after any sequence of successful and failed apply_fill
\* calls, cash is initial_cash plus the sum of cash_change over the fill
\* log, fees_paid is the sum of the log's fees, and each symbol's held count
\* is the sum of the shares of its fills in the log, the symbol being absent
\* exactly when that sum is below the threshold.  Refuted by a position that
\* is removed with a residue and bought again: the residue is in the sum of
\* the log and not in the position.
C34_LedgerReconciliation_WholeLog ==
    /\ CashAndFeesReconcile
    /\ \A s \in Symbols :
           /\ s \in Held <=> Abs(SharesInLog(s, Len(fills_log))) >= EPS
           /\ s \in Held => positions[s] = SharesInLog(s, Len(fills_log))

\* C34 (amended): after any sequence of successful and failed apply_fill
\* calls, cash is initial_cash plus the sum of cash_change over the fill
\* log, fees_paid is the sum of the log's fees, and each symbol's held count
\* is the sum of the shares of its fills since its position was last
\* removed (a fill that brings the count below the threshold removes the
\* position and drops what was left), the symbol being absent exactly when
\* that sum is zero.
C34_LedgerReconciliation ==
    /\ CashAndFeesReconcile
    /\ \A s \in Symbols :
           /\ s \in Held <=> SharesSinceRemoval(s, Len(fills_log)) # 0
           /\ s \in Held => positions[s] = SharesSinceRemoval(s, Len(fills_log))

\* C34 witness: a position was removed with a residue and bought again, and
\* a call failed after that: the log's shares of the symbol are more than
\* the position.
C34_Witness ==
    /\ LastIs("apply_fill")
    /\ last.ret.raised = "ValueError"
    /\ "AAPL" \in Held
    /\ positions["AAPL"] = 3
    /\ SharesInLog("AAPL", Len(fills_log)) = 4

\* C35: every fill that simulate_execution returns, with NextOpenFillModel
\* and a BasicCostModel whose rates are not negative, has a price above 0 and
\* a fee of 0 or more, so apply_fill accepts it.
C35_SimulatorFillsValid ==
    (LastIs("simulate_execution") /\ cost_model.commission_bps >= 0 /\ cost_model.slippage_bps >= 0) =>
        \A k \in 1..Len(last.ret.fills) :
            /\ last.ret.fills[k].price > 0
            /\ last.ret.fills[k].fee >= 0
            /\ FillError(last.ret.fills[k]) = "none"

\* C35 witness: a call returned the fill of a sale with a fee above 0 and
\* rejected an order whose symbol has a bar with an open of 0.
C35_Witness ==
    /\ LastIs("simulate_execution")
    /\ \E k \in 1..Len(last.ret.fills) :
           last.ret.fills[k].shares < 0 /\ last.ret.fills[k].fee > 0
    /\ \E k \in 1..Len(last.ret.rejected_log) :
           LET order == last.ret.rejected_log[k].order
           IN /\ <<DateOf(order.execute_dt), order.symbol>> \in DOMAIN bars
              /\ bars[<<DateOf(order.execute_dt), order.symbol>>].open = 0

\* No step of an engine run ends with the error of an invalid fill: apply_fill
\* raises on no fill of the run.
EngineFillsAccepted ==
    [][pc = "execute" =>
          /\ error' \in {"none", "TypeError"}
          /\ \A k \in 1..Len(outcomes') : \A j \in 1..Len(outcomes'[k].fills) :
                 FillError(outcomes'[k].fills[j]) = "none"]_vars

\* C36: simulate_execution returns fills and rejections whose counts sum to
\* the number of orders; the fills are those of the orders with a usable
\* price, in the orders' order, each with its order's symbol, shares and
\* execute_dt; the rejections carry the other orders, in the orders' order;
\* and each order's outcome is the outcome of a call with that order alone.
C36_OneOutcomePerOrder ==
    LastIs("simulate_execution") =>
        LET filled == SelectSeq(last.orders, HasOpen)
            refused == SelectSeq(last.orders, Unresolvable)
        IN /\ Len(last.ret.fills) + Len(last.ret.rejected_log) = Len(last.orders)
           /\ Len(last.ret.fills) = Len(filled)
           /\ \A k \in 1..Len(filled) :
                  /\ last.ret.fills[k].symbol = filled[k].symbol
                  /\ last.ret.fills[k].shares = filled[k].shares
                  /\ last.ret.fills[k].dt = filled[k].execute_dt
                  /\ simulate_execution(<<filled[k]>>) =
                         [fills |-> <<last.ret.fills[k]>>, rejected_log |-> <<>>]
           /\ Len(last.ret.rejected_log) = Len(refused)
           /\ \A k \in 1..Len(refused) :
                  /\ last.ret.rejected_log[k].order = refused[k]
                  /\ simulate_execution(<<refused[k]>>) =
                         [fills |-> <<>>, rejected_log |-> <<last.ret.rejected_log[k]>>]

\* C36 witness: of two orders the first was rejected and the second, an
\* order for the other symbol, was filled.
C36_Witness ==
    /\ LastIs("simulate_execution")
    /\ Len(last.orders) = 2
    /\ last.orders[1].symbol # last.orders[2].symbol
    /\ Len(last.ret.rejected_log) = 1
    /\ last.ret.rejected_log[1].order = last.orders[1]
    /\ Len(last.ret.fills) = 1
    /\ last.ret.fills[1].symbol = last.orders[2].symbol

\* C37: at every point of a run scheduled_orders has an entry for one
\* execution date at most; before the day's orders are popped that date is
\* the day that starts, from then on it is the trading day after the day
\* being processed; and when run_backtest has returned, scheduled_orders is
\* empty.
C37_ScheduleShape ==
    /\ Cardinality(DOMAIN scheduled_orders) <= 1
    /\ pc = "execute" => \A d \in DOMAIN scheduled_orders : d = t_date
    /\ (Running /\ pc # "execute") =>
           \A d \in DOMAIN scheduled_orders : i < Len(trading_days) /\ d = trading_days[i + 1]
    /\ pc \in {"returned", "returned_empty"} => scheduled_orders = <<>>

\* C37 witness: the orders of a rebalance day are all in the entry of the
\* next trading day, the one entry of the schedule.
C37_Witness ==
    /\ pc = "snapshot"
    /\ i < Len(trading_days)
    /\ DOMAIN scheduled_orders = {trading_days[i + 1]}
    /\ Len(scheduled_orders[trading_days[i + 1]]) = 2

\* A run that schedules no order on any day but the last returns with an
\* empty schedule after several days.
ReturnsWithEmptySchedule ==
    pc = "returned" /\ Len(trading_days) >= 2 /\ consulted # <<>> /\ scheduled_orders = <<>>

\* The dates along the log do not decrease.
DatesNonDecreasing(log) ==
    \A a, b \in 1..Len(log) : a <= b => DateOf(log[a].dt) <= DateOf(log[b].dt)

FillLogFrozen ==
    [][fills_log' = fills_log]_vars

\* C39: apply_fill succeeds for every fill with a price above 0 and a fee of
\* 0 or more, whatever the cash and the holdings are, and raises (ValueError)
\* only for a fill that fails one of the two; a fill that succeeded is the
\* last entry of the log.
C39_NoFundingLimit ==
    LastIs("apply_fill") =>
        /\ last.ret.raised = "none" <=> (last.fill.price > 0 /\ last.fill.fee >= 0)
        /\ last.ret.raised \in {"none", "ValueError"}
        /\ last.ret.raised = "none" =>
               fills_log # <<>> /\ fills_log[Len(fills_log)] = last.fill

\* C39 witness: a purchase that cost more than the cash at hand succeeded
\* on a ledger that is short the other symbol: the cash is negative and a
\* share count is negative.
C39_Witness ==
    /\ LastIs("apply_fill")
    /\ last.ret.raised = "none"
    /\ last.fill.shares > 0
    /\ cash < 0
    /\ \E s \in Held : positions[s] < 0

\* The call of generate_orders that made the order.
SizedBy(order) ==
    consulted[CHOOSE k \in 1..Len(consulted) : consulted[k].dt = order.generated_dt]

\* When a day's orders are popped, the cash and the positions are those that
\* the orders were sized against: no fill was applied since.
SizingBasisCurrent ==
    [][pc = "execute" =>
          \A k \in 1..Len(PopOrders(scheduled_orders, t_date)) :
              LET order == PopOrders(scheduled_orders, t_date)[k]
              IN /\ Consulted(order.generated_dt)
                 /\ SizedBy(order).portfolio_state.positions = positions
                 /\ SizedBy(order).portfolio_state.cash = cash
                 /\ SizedBy(order).fills_log = fills_log]_vars

====
